---- MODULE Spec2Model ----
(***************************************************************************)
(* A model of the Traart transcription engine (engine/transcribe.py,       *)
(* engine/diarize.py): the plain chunked pipeline, the diarized pipeline   *)
(* with its expansion retry, tail fallback and merge step, and the run of  *)
(* main around them, with the model-load heartbeat thread.                 *)
(*                                                                         *)
(* Units.  Sample counts are integers, as in the code.  Times that the     *)
(* code holds as float seconds are integers in ticks, TICKS ticks to one   *)
(* sample, so that int(t * sr) truncates and round(t, 2) rounds.  Float    *)
(* rounding error below one tick is not modelled.                          *)
(* Progress values are integers in thousandths (report_progress rounds to  *)
(* three decimals).  A text is a sequence of tokens: SP is one blank, any  *)
(* other token is a word.                                                  *)
(***************************************************************************)
EXTENDS Integers, Sequences, FiniteSets, TLC

SAMPLE_RATE == 16000

\* Resolution of the time axis: ticks per sample.
TICKS == 5

\* One second, one hundredth and one thousandth of a second, in ticks.
SEC == TICKS * SAMPLE_RATE
CS == SEC \div 100
MS == SEC \div 1000

\* sr * 0.1: below this transcribe_chunk does not call the model.
MinChunkSamples == SAMPLE_RATE \div 10
\* sr * 0.3: a chunk shorter than this ends the chunk loop.
MinTailSamples == (3 * SAMPLE_RATE) \div 10

SP == " "
PLACEHOLDER == <<"[...]">>

Min(a, b) == IF a <= b THEN a ELSE b
Max(a, b) == IF a >= b THEN a ELSE b

\* round(a / b) for b > 0, ties to even (Python's round on an exact tie).
RoundDiv(a, b) ==
  LET q == a \div b
      r == a % b
  IN  IF 2 * r < b THEN q
      ELSE IF 2 * r > b THEN q + 1
      ELSE IF q % 2 = 0 THEN q ELSE q + 1

\* round(t, 2) of a time in ticks: the nearest hundredth of a second.
Round2(t) == CS * RoundDiv(t, CS)

\* n / sr: a sample count as a time.
SecondsOf(n) == n * TICKS

\* int(t * sr): a time as a sample index.
SamplesOf(t) == t \div TICKS

(***************************************************************************)
(* Texts.                                                                  *)
(***************************************************************************)
RECURSIVE LStrip(_)
LStrip(s) == IF s # <<>> /\ Head(s) = SP THEN LStrip(Tail(s)) ELSE s

RECURSIVE RStrip(_)
RStrip(s) ==
  IF s # <<>> /\ s[Len(s)] = SP THEN RStrip(SubSeq(s, 1, Len(s) - 1)) ELSE s

\* str.strip()
Strip(s) == RStrip(LStrip(s))

\* "".join(parts): the parts without a separator (mutant).
RECURSIVE JoinTight(_)
JoinTight(parts) ==
  IF parts = <<>> THEN <<>> ELSE parts[1] \o JoinTight(Tail(parts))

\* " ".join(parts)
RECURSIVE JoinSpace(_)
JoinSpace(parts) ==
  IF parts = <<>> THEN <<>>
  ELSE IF Len(parts) = 1 THEN parts[1]
  ELSE parts[1] \o <<SP>> \o JoinSpace(Tail(parts))

(***************************************************************************)
(* Bounds of the model.                                                    *)
(***************************************************************************)
\* Longest buffer of the plain-pipeline inputs, in tenths of a second.
MaxLenTenths == 50
\* Heartbeat iterations the model follows (the loop itself is unbounded).
MaxBeats == 2
\* turns of one diarized input
MaxTurns == 4
\* chunks of the longest run with a model that fails on every call
MaxFailedChunks == 22

VARIABLES
  \* inputs: the parsed arguments and the decoded audio
  total_samples,    \* len(audio)
  chunk_duration,   \* args.chunk_duration (seconds)
  chunk_overlap,    \* args.chunk_overlap (seconds)
  merge_gap,        \* args.merge_gap (ticks)
  min_segment,      \* args.min_segment (ticks)
  expansion_pad,    \* args.expansion_pad (seconds)
  diarize,          \* args.diarize
  raw_turns,        \* the turns the pyannote pipeline yields for this audio
  asr_faults,       \* the ways model.transcribe goes wrong in this run
  \* the main thread
  pc,               \* position of the main thread
  chunks, i, texts, \* locals of transcribe_audio and of the per-turn loop
  segments, full_text, num_speakers,
  diar_segments, results, merged,
  cur,              \* locals of the turn in progress
  \* the clock and the unit times of the progress estimate
  clock,            \* the durations (ms) a unit can take in this run
  chunk_times, segment_times,
  \* the file watcher of watcher.py (AudioFileHandler)
  w_time,           \* time.monotonic(), in seconds
  w_exists,         \* the paths that exist (os.path.exists)
  w_pending,        \* self._pending: <<path, last_seen>> in insertion order
  w_reported,       \* self._reported
  deb_pc,           \* position of the debounce thread
  wake_at,          \* the time at which its sleep(1.0) ends
  deb_now,          \* its local `now`
  ready,            \* its local `ready`
  emitted,          \* the new_file events written, with the time of writing
  last_event,       \* the time of the last create/modify event of each media file
  \* the model download of setup_env.py (_curl_download)
  dl_pc,            \* position in _curl_download
  attempt,          \* the loop variable
  curl_runs,        \* the curl processes run so far
  sleeps,           \* the delays slept so far, in seconds
  setup_reports,    \* the progress lines of setup_env.py, in thousandths
  \* the heartbeat thread
  model_loaded, hb_pc, hb_p, beats,
  \* what the run leaves outside
  stderr,           \* the JSON lines written to stderr, in order
  warnings,         \* the module-level list _warnings
  asr_calls,        \* the slices handed to model.transcribe, in order
  output,           \* what was written to the output file
  exit_code,        \* the process's exit code, or -1 while it runs
  temp_file,        \* the temporary WAV file of convert_to_wav
  fault             \* the faults injected so far (ghost)

inputs == <<total_samples, chunk_duration, chunk_overlap, merge_gap,
            min_segment, expansion_pad, raw_turns, asr_faults>>
plain_locals == <<chunks, texts>>
diar_locals == <<diar_segments, results, merged, cur>>
hb_vars == <<model_loaded, hb_pc, hb_p, beats>>
eta_vars == <<clock, chunk_times, segment_times>>
outcome_vars == <<output, exit_code, temp_file, fault>>

dl_vars == <<dl_pc, attempt, curl_runs, sleeps, setup_reports>>
w_vars == <<w_time, w_exists, w_pending, w_reported, deb_pc, wake_at, deb_now,
           ready, emitted, last_event>>
vars == <<inputs, diarize, pc, i, plain_locals, segments, full_text,
          num_speakers, diar_locals, hb_vars, eta_vars, stderr, warnings,
          asr_calls, outcome_vars, dl_vars, w_vars>>

NoTurns == <<>>
\* The locals of a turn before the turn begins.
NoCur == [chunk_start |-> 0, parts |-> <<>>, text |-> <<>>, j |-> 0]
\* The output file before main writes it.
NoOutput ==
  [written |-> FALSE, diarization |-> FALSE, speakers |-> 0, text |-> <<>>,
   segments |-> <<>>, srt |-> <<>>, vtt |-> <<>>]

(***************************************************************************)
(* The progress stream (report_progress, report_error, report_warning).    *)
(***************************************************************************)
\* One line of report_progress; p is round(progress, 3) in thousandths.
ProgressEvent(p, step, by) ==
  [kind |-> "progress", p |-> p, step |-> step, by |-> by]

\* sum(times)
RECURSIVE SumSeq(_)
SumSeq(times) == IF times = <<>> THEN 0 ELSE Head(times) + SumSeq(Tail(times))

\* The estimate is reported from the first unit on (mutant).
HasEtaFromFirst(times) == Len(times) >= 1

\* if len(chunk_times) >= 2
HasEta(times) == Len(times) >= 2

\* eta = round(avg * remaining, 1), in tenths of a second; times are in ms.
Eta(times, remaining) == RoundDiv(SumSeq(times) * remaining, Len(times) * 100)

\* The progress line of a processed unit: eta_seconds is in the line only
\* when an estimate was computed.
UnitProgressEvent(p, step, times, remaining) ==
  IF HasEta(times)
  THEN [kind |-> "progress", p |-> p, step |-> step, by |-> "main",
        eta_seconds |-> Eta(times, remaining)]
  ELSE ProgressEvent(p, step, "main")

ErrorEvent == [kind |-> "error", p |-> -1, step |-> "", by |-> "main"]

WarningEvent(what) == [kind |-> "warning", p |-> -1, step |-> what, by |-> "main"]

(***************************************************************************)
(* The ASR collaborator and transcribe_chunk.                              *)
(***************************************************************************)
\* What one call of model.transcribe does: it raises ("fail"), returns only
\* whitespace ("blank"), or returns a word padded with whitespace ("text").
\* A model that is "dead" raises on every call of the run.
Outcomes == IF "dead" \in asr_faults THEN {"fail"} ELSE {"text"} \cup asr_faults

\* The text of the k-th call that returns a word.
AsrRaw(o, k) == IF o = "text" THEN <<SP, ToString(k), SP>> ELSE <<SP>>

\* transcribe_chunk without the warning of its except clause (mutant).
TranscribeChunkSilent(n, o, k) ==
  IF n < MinChunkSamples
  THEN [text |-> <<>>, called |-> FALSE, warned |-> FALSE]
  ELSE IF o = "fail"
  THEN [text |-> <<>>, called |-> TRUE, warned |-> FALSE]
  ELSE [text |-> Strip(AsrRaw(o, k)), called |-> TRUE, warned |-> FALSE]

\* transcribe_chunk without the guard on the slice's length (mutant).
TranscribeChunkUnguarded(n, o, k) ==
  IF o = "fail"
  THEN [text |-> <<>>, called |-> TRUE, warned |-> TRUE]
  ELSE [text |-> Strip(AsrRaw(o, k)), called |-> TRUE, warned |-> FALSE]

\* transcribe_chunk on a slice of n samples: the text returned, whether the
\* model was called, whether a warning was reported.
TranscribeChunk(n, o, k) ==
  IF n < MinChunkSamples
  THEN [text |-> <<>>, called |-> FALSE, warned |-> FALSE]
  ELSE IF o = "fail"
  THEN [text |-> <<>>, called |-> TRUE, warned |-> TRUE]
  ELSE [text |-> Strip(AsrRaw(o, k)), called |-> TRUE, warned |-> FALSE]

\* Outcomes that make a difference for a slice of n samples.
OutcomesFor(n) == IF n < MinChunkSamples THEN {"blank"} ELSE Outcomes

Slice(s, e) == [start |-> s, end |-> e]

\* One pass of transcribe_chunk beyond its guard: the slice, what
\* model.transcribe did, and the temporary WAV file of the slice, which
\* mkstemp created and the finally clause removed.
Call(s, e, o) == [start |-> s, end |-> e, result |-> o, temp |-> "removed"]

CallsAfter(r, s, e, o) == IF r.called THEN Append(asr_calls, Call(s, e, o)) ELSE asr_calls
WarningsAfter(r) == IF r.warned THEN Append(warnings, "chunk") ELSE warnings
StderrAfter(r) == IF r.warned THEN Append(stderr, WarningEvent("chunk")) ELSE stderr

(***************************************************************************)
(* transcribe_audio: the plain pipeline.                                   *)
(***************************************************************************)
PROGRESS_OFFSET == 150
PROGRESS_SCALE == 780

\* for start in range(0, total, step): ... chunks.append((start, end))
RECURSIVE ChunkLoop(_, _, _, _, _)
ChunkLoop(start, total, chunk_samples, step_samples, acc) ==
  IF start >= total THEN acc
  ELSE LET end == Min(start + chunk_samples, total)
       IN  IF (end - start) < MinTailSamples THEN acc
           ELSE ChunkLoop(start + step_samples, total, chunk_samples,
                          step_samples, Append(acc, <<start, end>>))

\* Mutant: the loop without its break on a chunk shorter than 0.3 s.
RECURSIVE ChunkLoopNoBreak(_, _, _, _, _)
ChunkLoopNoBreak(start, total, chunk_samples, step_samples, acc) ==
  IF start >= total THEN acc
  ELSE ChunkLoopNoBreak(start + step_samples, total, chunk_samples, step_samples,
                        Append(acc, <<start, Min(start + chunk_samples, total)>>))

BuildChunksNoBreak(total, chunk_samples, step_samples) ==
  ChunkLoopNoBreak(0, total, chunk_samples, step_samples, <<>>)

\* Mutant: the loop stepping by the chunk length, without overlap.
BuildChunksNoOverlap(total, chunk_samples, step_samples) ==
  ChunkLoop(0, total, chunk_samples, chunk_samples, <<>>)

\* Mutant: the loop ending as soon as a chunk reaches the end of the buffer.
RECURSIVE ChunkLoopStopAtEnd(_, _, _, _, _)
ChunkLoopStopAtEnd(start, total, chunk_samples, step_samples, acc) ==
  IF start >= total THEN acc
  ELSE LET end == Min(start + chunk_samples, total)
       IN  IF (end - start) < MinTailSamples THEN acc
           ELSE IF end = total THEN Append(acc, <<start, end>>)
           ELSE ChunkLoopStopAtEnd(start + step_samples, total, chunk_samples,
                                   step_samples, Append(acc, <<start, end>>))

BuildChunksStopAtEnd(total, chunk_samples, step_samples) ==
  ChunkLoopStopAtEnd(0, total, chunk_samples, step_samples, <<>>)

\* Mutant: the loop stepping past the end of each chunk.
BuildChunksSparse(total, chunk_samples, step_samples) ==
  ChunkLoop(0, total, chunk_samples, chunk_samples + step_samples, <<>>)

\* The chunk loop over range(0, total, step): a range with a negative step
\* is empty.
BuildChunks(total, chunk_samples, step_samples) ==
  IF step_samples < 0 THEN <<>>
  ELSE ChunkLoop(0, total, chunk_samples, step_samples, <<>>)

ChunkSamples == chunk_duration * SAMPLE_RATE
StepSamples == (chunk_duration - chunk_overlap) * SAMPLE_RATE

\* Mutant: the single-chunk path is never taken.
SingleChunkNever(total, chunk_samples) == FALSE

\* total_samples <= chunk_samples: the single-chunk path is taken.
SingleChunk(total, chunk_samples) == total <= chunk_samples

\* progress_offset + progress_scale * ((i + 1) / total_chunks)
ChunkProgress(done, total) ==
  RoundDiv(PROGRESS_OFFSET * total + PROGRESS_SCALE * done, total)

\* range(0, total_samples, step_samples) raises ValueError for a step of 0.
RangeRaises(step_samples) == step_samples = 0

TaEnter ==
  /\ pc = "ta_call"
  /\ SingleChunk(total_samples, ChunkSamples) \/ ~RangeRaises(StepSamples)
  /\ IF SingleChunk(total_samples, ChunkSamples)
     THEN /\ stderr' = Append(stderr, ProgressEvent(
                 PROGRESS_OFFSET + RoundDiv(PROGRESS_SCALE, 10), "transcribing", "main"))
          /\ pc' = "ta_single"
          /\ UNCHANGED <<chunks, texts, segments, i, chunk_times>>
     ELSE /\ chunks' = BuildChunks(total_samples, ChunkSamples, StepSamples)
          /\ texts' = <<>>
          /\ segments' = <<>>
          /\ chunk_times' = <<>>
          /\ i' = 0
          /\ pc' = "ta_loop"
          /\ UNCHANGED stderr
  /\ UNCHANGED <<w_vars, dl_vars, clock, segment_times, inputs, diarize, full_text, num_speakers, diar_locals,
                 hb_vars, warnings, asr_calls, outcome_vars>>

TaSingle ==
  /\ pc = "ta_single"
  /\ \E o \in OutcomesFor(total_samples) :
       LET r == TranscribeChunk(total_samples, o, Len(asr_calls) + 1)
       IN  /\ asr_calls' = CallsAfter(r, 0, total_samples, o)
           /\ warnings' = WarningsAfter(r)
           /\ stderr' = Append(StderrAfter(r), ProgressEvent(
                  PROGRESS_OFFSET + PROGRESS_SCALE, "transcribing", "main"))
           /\ segments' = IF r.text # <<>>
                          THEN <<[start |-> 0, end |-> SecondsOf(total_samples),
                                  text |-> r.text]>>
                          ELSE <<>>
           /\ full_text' = r.text
  /\ pc' = "ta_ret"
  /\ UNCHANGED <<w_vars, dl_vars, eta_vars, inputs, diarize, i, plain_locals, num_speakers, diar_locals,
                 hb_vars, outcome_vars>>

TaChunk ==
  /\ pc = "ta_loop"
  /\ i < Len(chunks)
  /\ LET start_sample == chunks[i + 1][1]
         end_sample == chunks[i + 1][2]
     IN  \E o \in OutcomesFor(end_sample - start_sample), d \in clock :
           LET r == TranscribeChunk(end_sample - start_sample, o, Len(asr_calls) + 1)
               times == Append(chunk_times, d)
           IN  /\ asr_calls' = CallsAfter(r, start_sample, end_sample, o)
               /\ chunk_times' = times
               /\ warnings' = WarningsAfter(r)
               /\ texts' = IF r.text # <<>> THEN Append(texts, r.text) ELSE texts
               /\ segments' = IF r.text # <<>>
                              THEN Append(segments,
                                     [start |-> Round2(SecondsOf(start_sample)),
                                      end |-> Round2(SecondsOf(end_sample)),
                                      text |-> r.text])
                              ELSE segments
               /\ stderr' = Append(StderrAfter(r), UnitProgressEvent(
                      ChunkProgress(i + 1, Len(chunks)), "transcribing", times,
                      Len(chunks) - i - 1))
  /\ i' = i + 1
  /\ UNCHANGED <<w_vars, dl_vars, clock, segment_times, inputs, diarize, pc, chunks, full_text, num_speakers,
                 diar_locals, hb_vars, outcome_vars>>

TaReturn ==
  /\ pc = "ta_loop"
  /\ i = Len(chunks)
  /\ full_text' = JoinSpace(texts)
  /\ pc' = "ta_ret"
  /\ UNCHANGED <<w_vars, dl_vars, eta_vars, inputs, diarize, i, plain_locals, segments, num_speakers,
                 diar_locals, hb_vars, stderr, warnings, asr_calls, outcome_vars>>

\* The chunk loop raises: the exception leaves transcribe_audio.
TaRangeError ==
  /\ pc = "ta_call"
  /\ ~SingleChunk(total_samples, ChunkSamples) /\ RangeRaises(StepSamples)
  /\ pc' = "ta_raised"
  /\ UNCHANGED <<w_vars, dl_vars, eta_vars, inputs, diarize, i, plain_locals, segments,
                 full_text, num_speakers, diar_locals, hb_vars, stderr, warnings,
                 asr_calls, outcome_vars>>

NextPlain == TaEnter \/ TaSingle \/ TaChunk \/ TaReturn

(***************************************************************************)
(* diarize.py: the post-processing of the pyannote turns.                  *)
(***************************************************************************)
Turn(a, b, spk) == [start |-> a, end |-> b, speaker_id |-> spk]

RECURSIVE MergeSegmentsFrom(_, _, _)
MergeSegmentsFrom(acc, rest, gap_threshold) ==
  IF rest = <<>> THEN acc
  ELSE LET seg == Head(rest)
           prev == acc[Len(acc)]
       IN  IF seg.speaker_id = prev.speaker_id /\ (seg.start - prev.end) < gap_threshold
           THEN MergeSegmentsFrom(
                  [acc EXCEPT ![Len(acc)] = Turn(prev.start, seg.end, prev.speaker_id)],
                  Tail(rest), gap_threshold)
           ELSE MergeSegmentsFrom(Append(acc, seg), Tail(rest), gap_threshold)

\* _merge_segments
MergeSegments(segs, gap_threshold) ==
  IF segs = <<>> THEN segs
  ELSE MergeSegmentsFrom(<<segs[1]>>, Tail(segs), gap_threshold)

\* _filter_short
FilterShort(segs, min_duration) ==
  SelectSeq(segs, LAMBDA x : (x.end - x.start) >= min_duration)

\* diarize(), once the pyannote pipeline has returned its turns.
Diarize(turns, gap_threshold, min_duration) ==
  FilterShort(MergeSegments(turns, gap_threshold), min_duration)

(***************************************************************************)
(* transcribe_with_diarization: the diarized pipeline.                     *)
(***************************************************************************)
TURN_OFFSET == 350
TURN_SCALE == 600
TAIL_PROGRESS == 950

\* audio_tensor[a:b] of a buffer of n samples, 0 <= a: the slice's bounds.
ClipLo(a, n) == Min(a, n)
ClipHi(a, b, n) == Max(Min(b, n), Min(a, n))

\* The turn in progress and its sample span.
Seg == diar_segments[i + 1]
start_sample == SamplesOf(Seg.start)
end_sample == SamplesOf(Seg.end)
seg_lo == ClipLo(start_sample, total_samples)
seg_hi == ClipHi(start_sample, end_sample, total_samples)

\* duration = (end_sample - start_sample) / sr, in ticks
Duration == SecondsOf(end_sample - start_sample)

\* Mutant: a turn of exactly chunk_duration - chunk_overlap is chunked too.
IsLongInclusive(duration) == duration >= (chunk_duration - chunk_overlap) * SEC

\* duration > chunk_duration - chunk_overlap: the turn is chunked.
IsLong(duration) == duration > (chunk_duration - chunk_overlap) * SEC

\* Mutant: the retry also for turns shorter than 0.5 s.
NeedsRetryAnyLength(text, duration) == text = <<>>

\* not text and duration >= 0.5: the expansion retry runs.
NeedsRetry(text, duration) == text = <<>> /\ 2 * duration >= SEC

\* Mutant: the placeholder also for turns shorter than 0.5 s.
KeepsPlaceholderAlways(duration) == TRUE

\* duration >= 0.5: a turn without text is kept as a placeholder.
KeepsPlaceholder(duration) == 2 * duration >= SEC

\* 0.35 + 0.6 * ((i + 1) / total_segments)
TurnProgress(done, total) == RoundDiv(TURN_OFFSET * total + TURN_SCALE * done, total)

\* Mutant: the tail fallback from a gap of exactly 10 s on.
HasTailInclusive(tail_gap) == tail_gap >= 10 * SEC

\* Mutant: no tail fallback.
HasTailNever(tail_gap) == FALSE

\* tail_gap > 10
HasTail(tail_gap) == tail_gap > 10 * SEC

\* Mutant: the merge test without the check for an empty speaker label.
ShouldMergeAnySpeaker(prev, r, gap) ==
  prev.speaker = r.speaker /\ (r.start - prev.end) < gap

\* Mutant: the merge test with the gap bound included.
ShouldMergeInclusive(prev, r, gap) ==
  prev.speaker = r.speaker /\ r.speaker # "" /\ (r.start - prev.end) <= gap

\* Mutant: the merge loop never merges.
ShouldMergeNever(prev, r, gap) == FALSE

\* The test of the merge loop, given a previous merged segment.
ShouldMerge(prev, r, gap) ==
  prev.speaker = r.speaker /\ r.speaker # "" /\ (r.start - prev.end) < gap

\* One iteration of the merge loop.
MergeInto(acc, r, gap) ==
  IF acc # <<>> /\ ShouldMerge(acc[Len(acc)], r, gap)
  THEN [acc EXCEPT ![Len(acc)].end = r.end,
                   ![Len(acc)].text = @ \o <<SP>> \o r.text]
  ELSE Append(acc, r)

Texts(segs) == [k \in 1..Len(segs) |-> segs[k].text]

\* The call of diarize() raises: the exception leaves the function.
TwdDiarizeFails ==
  /\ pc = "twd_call"
  /\ stderr' = Append(stderr, ProgressEvent(160, "diarizing", "main"))
  /\ pc' = "twd_raised"
  /\ UNCHANGED <<w_vars, dl_vars, eta_vars, inputs, diarize, i, plain_locals, segments, full_text,
                 num_speakers, diar_locals, hb_vars, warnings, asr_calls,
                 outcome_vars>>

\* The call of diarize() returns the merged and filtered turns.
TwdDiarize ==
  /\ pc = "twd_call"
  /\ diar_segments' = Diarize(raw_turns, merge_gap, min_segment)
  /\ stderr' = stderr \o << ProgressEvent(160, "diarizing", "main"),
                            ProgressEvent(TURN_OFFSET, "diarizing", "main") >>
  /\ results' = <<>>
  /\ segment_times' = <<>>
  /\ i' = 0
  /\ pc' = "twd_loop"
  /\ UNCHANGED <<w_vars, dl_vars, clock, chunk_times, inputs, diarize, plain_locals, segments, full_text,
                 num_speakers, merged, cur, hb_vars, warnings, asr_calls,
                 outcome_vars>>

\* A turn no longer than chunk_duration - chunk_overlap: one call.
TwdTurnDirect ==
  /\ pc = "twd_loop"
  /\ i < Len(diar_segments)
  /\ ~IsLong(Duration)
  /\ \E o \in OutcomesFor(seg_hi - seg_lo) :
       LET r == TranscribeChunk(seg_hi - seg_lo, o, Len(asr_calls) + 1)
       IN  /\ asr_calls' = CallsAfter(r, seg_lo, seg_hi, o)
           /\ warnings' = WarningsAfter(r)
           /\ stderr' = StderrAfter(r)
           /\ cur' = [NoCur EXCEPT !.text = r.text]
  /\ pc' = "twd_retry"
  /\ UNCHANGED <<w_vars, dl_vars, eta_vars, inputs, diarize, i, plain_locals, segments, full_text,
                 num_speakers, diar_segments, results, merged, hb_vars,
                 outcome_vars>>

\* A longer turn: the chunk loop over the turn's audio begins.
TwdTurnLong ==
  /\ pc = "twd_loop"
  /\ i < Len(diar_segments)
  /\ IsLong(Duration)
  /\ cur' = NoCur
  /\ pc' = "twd_parts"
  /\ UNCHANGED <<w_vars, dl_vars, eta_vars, inputs, diarize, i, plain_locals, segments, full_text,
                 num_speakers, diar_segments, results, merged, hb_vars,
                 stderr, warnings, asr_calls, outcome_vars>>

\* The chunk of the chunk loop at cur.chunk_start, within a slice [lo, hi).
part_lo(lo, hi) == Min(lo + cur.chunk_start, hi)
part_hi(lo, hi) == Min(lo + cur.chunk_start + ChunkSamples, hi)
\* The loop goes on: the range is not exhausted and the chunk is not short.
PartLeft(lo, hi) ==
  /\ cur.chunk_start < hi - lo
  /\ (part_hi(lo, hi) - part_lo(lo, hi)) >= MinTailSamples

\* One chunk of a long turn.
TwdPart ==
  /\ pc = "twd_parts"
  /\ PartLeft(seg_lo, seg_hi)
  /\ LET a == part_lo(seg_lo, seg_hi)
         b == part_hi(seg_lo, seg_hi)
     IN  \E o \in OutcomesFor(b - a) :
           LET r == TranscribeChunk(b - a, o, Len(asr_calls) + 1)
           IN  /\ asr_calls' = CallsAfter(r, a, b, o)
               /\ warnings' = WarningsAfter(r)
               /\ stderr' = StderrAfter(r)
               /\ cur' = [cur EXCEPT
                            !.parts = IF r.text # <<>> THEN Append(@, r.text) ELSE @,
                            !.chunk_start = @ + StepSamples]
  /\ UNCHANGED <<w_vars, dl_vars, eta_vars, inputs, diarize, pc, i, plain_locals, segments, full_text,
                 num_speakers, diar_segments, results, merged, hb_vars,
                 outcome_vars>>

\* The chunk loop of a long turn ends.
TwdPartsDone ==
  /\ pc = "twd_parts"
  /\ ~PartLeft(seg_lo, seg_hi)
  /\ cur' = [cur EXCEPT !.text = JoinSpace(cur.parts)]
  /\ pc' = "twd_retry"
  /\ UNCHANGED <<w_vars, dl_vars, eta_vars, inputs, diarize, i, plain_locals, segments, full_text,
                 num_speakers, diar_segments, results, merged, hb_vars,
                 stderr, warnings, asr_calls, outcome_vars>>

\* The span of the expansion retry.
expanded_start == Max(0, start_sample - expansion_pad * SAMPLE_RATE)
expanded_end == Min(total_samples, end_sample + expansion_pad * SAMPLE_RATE)

\* The turn gave no text and lasts 0.5 s or more: one retry on padded audio.
TwdRetry ==
  /\ pc = "twd_retry"
  /\ NeedsRetry(cur.text, Duration)
  /\ LET a == ClipLo(expanded_start, total_samples)
         b == ClipHi(expanded_start, expanded_end, total_samples)
     IN  \E o \in OutcomesFor(b - a) :
           LET r == TranscribeChunk(b - a, o, Len(asr_calls) + 1)
           IN  /\ asr_calls' = CallsAfter(r, a, b, o)
               /\ warnings' = WarningsAfter(r)
               /\ stderr' = StderrAfter(r)
               /\ cur' = [cur EXCEPT !.text = r.text]
  /\ pc' = "twd_emit"
  /\ UNCHANGED <<w_vars, dl_vars, eta_vars, inputs, diarize, i, plain_locals, segments, full_text,
                 num_speakers, diar_segments, results, merged, hb_vars,
                 outcome_vars>>

\* The result of the turn with its bounds exchanged (mutant).
TurnResultReversed(seg, text) ==
  [start |-> Round2(seg.end), end |-> Round2(seg.start),
   speaker |-> seg.speaker_id, text |-> text]

\* The result of the turn: a segment with its text, a placeholder, or nothing.
TurnResult(seg, text) ==
  [start |-> Round2(seg.start), end |-> Round2(seg.end),
   speaker |-> seg.speaker_id, text |-> text]

\* The end of one iteration of the per-turn loop.
TwdEmit ==
  /\ \/ pc = "twd_emit"
     \/ pc = "twd_retry" /\ ~NeedsRetry(cur.text, Duration)
  /\ \E d \in clock :
       LET times == Append(segment_times, d)
           line == UnitProgressEvent(TurnProgress(i + 1, Len(diar_segments)),
                     "transcribing", times, Len(diar_segments) - i - 1)
       IN  /\ segment_times' = times
           /\ IF cur.text # <<>>
              THEN /\ results' = Append(results, TurnResult(Seg, cur.text))
                   /\ warnings' = warnings
                   /\ stderr' = Append(stderr, line)
              ELSE IF KeepsPlaceholder(Duration)
              THEN /\ results' = Append(results, TurnResult(Seg, PLACEHOLDER))
                   /\ warnings' = Append(warnings, "empty_segment")
                   /\ stderr' = stderr \o << WarningEvent("empty_segment"), line >>
              ELSE /\ results' = results
                   /\ warnings' = warnings
                   /\ stderr' = Append(stderr, line)
  /\ i' = i + 1
  /\ cur' = NoCur
  /\ pc' = "twd_loop"
  /\ UNCHANGED <<w_vars, dl_vars, clock, chunk_times, inputs, diarize, plain_locals, segments, full_text,
                 num_speakers, diar_segments, merged, hb_vars, asr_calls,
                 outcome_vars>>

\* After the loop: the tail the diarization left uncovered.
audio_duration == SecondsOf(total_samples)
last_diar_end ==
  IF diar_segments # <<>> THEN diar_segments[Len(diar_segments)].end ELSE 0
tail_gap == audio_duration - last_diar_end
\* The tail taken from the start of the buffer (mutant).
TailFromBufferStart == ClipLo(0, total_samples)

tail_start_sample == ClipLo(SamplesOf(last_diar_end), total_samples)

TwdTailCheck ==
  /\ pc = "twd_loop"
  /\ i = Len(diar_segments)
  /\ IF HasTail(tail_gap)
     THEN /\ stderr' = Append(stderr, ProgressEvent(TAIL_PROGRESS, "transcribing", "main"))
          /\ pc' = "twd_tail"
     ELSE /\ stderr' = stderr
          /\ pc' = "twd_merge"
  /\ cur' = NoCur
  /\ merged' = <<>>
  /\ UNCHANGED <<w_vars, dl_vars, eta_vars, inputs, diarize, i, plain_locals, segments, full_text,
                 num_speakers, diar_segments, results, hb_vars, warnings,
                 asr_calls, outcome_vars>>

\* One chunk of the tail.
TwdTailChunk ==
  /\ pc = "twd_tail"
  /\ PartLeft(tail_start_sample, total_samples)
  /\ LET a == part_lo(tail_start_sample, total_samples)
         b == part_hi(tail_start_sample, total_samples)
         abs_start == last_diar_end + SecondsOf(cur.chunk_start)
         abs_end == last_diar_end + SecondsOf(
                      Min(cur.chunk_start + ChunkSamples, total_samples - tail_start_sample))
     IN  \E o \in OutcomesFor(b - a) :
           LET r == TranscribeChunk(b - a, o, Len(asr_calls) + 1)
           IN  /\ asr_calls' = CallsAfter(r, a, b, o)
               /\ warnings' = WarningsAfter(r)
               /\ stderr' = StderrAfter(r)
               /\ results' = IF r.text # <<>>
                             THEN Append(results,
                                    [start |-> Round2(abs_start), end |-> Round2(abs_end),
                                     speaker |-> "", text |-> r.text])
                             ELSE results
  /\ cur' = [cur EXCEPT !.chunk_start = @ + StepSamples]
  /\ UNCHANGED <<w_vars, dl_vars, eta_vars, inputs, diarize, pc, i, plain_locals, segments, full_text,
                 num_speakers, diar_segments, merged, hb_vars, outcome_vars>>

TwdTailDone ==
  /\ pc = "twd_tail"
  /\ ~PartLeft(tail_start_sample, total_samples)
  /\ cur' = NoCur
  /\ pc' = "twd_merge"
  /\ UNCHANGED <<w_vars, dl_vars, eta_vars, inputs, diarize, i, plain_locals, segments, full_text,
                 num_speakers, diar_segments, results, merged, hb_vars,
                 stderr, warnings, asr_calls, outcome_vars>>

\* One iteration of the merge loop over results.
TwdMergeStep ==
  /\ pc = "twd_merge"
  /\ cur.j < Len(results)
  /\ merged' = MergeInto(merged, results[cur.j + 1], merge_gap)
  /\ cur' = [cur EXCEPT !.j = @ + 1]
  /\ UNCHANGED <<w_vars, dl_vars, eta_vars, inputs, diarize, pc, i, plain_locals, segments, full_text,
                 num_speakers, diar_segments, results, hb_vars, stderr,
                 warnings, asr_calls, outcome_vars>>

\* return full_text, merged
TwdReturn ==
  /\ pc = "twd_merge"
  /\ cur.j = Len(results)
  /\ full_text' = JoinSpace(Texts(merged))
  /\ segments' = merged
  /\ pc' = "twd_ret"
  /\ UNCHANGED <<w_vars, dl_vars, eta_vars, inputs, diarize, i, plain_locals, num_speakers, diar_locals,
                 hb_vars, stderr, warnings, asr_calls, outcome_vars>>

NextDiar ==
  \/ TwdDiarizeFails \/ TwdDiarize
  \/ TwdTurnDirect \/ TwdTurnLong \/ TwdPart \/ TwdPartsDone
  \/ TwdRetry \/ TwdEmit
  \/ TwdTailCheck \/ TwdTailChunk \/ TwdTailDone
  \/ TwdMergeStep \/ TwdReturn

(***************************************************************************)
(* main: the run around the two pipelines, and the heartbeat thread.       *)
(***************************************************************************)
\* The faults after which main cannot complete the run.
FatalFaults == {"input", "convert", "load_audio", "load_model", "write", "chunking"}

\* The most warnings the summary lists.
SUMMARY_LIMIT == 20

\* _warnings[:20] (mutant: the last 20).
SummaryListedLast(ws) == SubSeq(ws, Max(1, Len(ws) - SUMMARY_LIMIT + 1), Len(ws))

\* _warnings[:20]
SummaryListed(ws) == SubSeq(ws, 1, Min(Len(ws), SUMMARY_LIMIT))

\* The line of report_warnings_summary with its fields.
WarningsSummary(ws) ==
  [kind |-> "summary", p |-> -1, step |-> "", by |-> "main",
   warnings_count |-> Len(ws), warnings |-> SummaryListed(ws)]

\* The decimal digits of a natural number, as characters.
RECURSIVE Digits(_)
Digits(n) == IF n < 10 THEN <<ToString(n)>> ELSE Append(Digits(n \div 10), ToString(n % 10))

\* f"{n:0wd}": the digits, padded with zeros to at least w characters.
RECURSIVE ZeroPad(_, _)
ZeroPad(ds, w) == IF Len(ds) < w THEN ZeroPad(<<"0">> \o ds, w) ELSE ds

\* _format_ts_srt on a time in ticks: HH:MM:SS,mmm with
\* ms = int(round((seconds - int(seconds)) * 1000)).
FormatTsSrt(t) ==
  LET whole == t \div SEC
      h == whole \div 3600
      mi == (whole % 3600) \div 60
      s == whole % 60
      ms == RoundDiv((t % SEC) * 1000, SEC)
  IN  ZeroPad(Digits(h), 2) \o <<":">> \o ZeroPad(Digits(mi), 2) \o <<":">>
        \o ZeroPad(Digits(s), 2) \o <<",">> \o ZeroPad(Digits(ms), 3)

\* _format_ts_vtt on a time in ticks: HH:MM:SS.mmm, computed as _format_ts_srt.
FormatTsVtt(t) ==
  LET whole == t \div SEC
      h == whole \div 3600
      mi == (whole % 3600) \div 60
      s == whole % 60
      ms == RoundDiv((t % SEC) * 1000, SEC)
  IN  ZeroPad(Digits(h), 2) \o <<":">> \o ZeroPad(Digits(mi), 2) \o <<":">>
        \o ZeroPad(Digits(s), 2) \o <<".">> \o ZeroPad(Digits(ms), 3)

\* seg.get("speaker", "")
SpeakerOf(seg) == IF "speaker" \in DOMAIN seg THEN seg.speaker ELSE ""

\* if diarization and speaker (mutant: the speaker is not tested).
SpeakerShownWhenDiarized(d, speaker) == d

\* if diarization and speaker
SpeakerShown(d, speaker) == d /\ speaker # ""

\* The lines format_output_srt appends for the segment numbered n.
SrtCue(n, seg, d) ==
  << Digits(n),
     FormatTsSrt(seg.start) \o <<" --> ">> \o FormatTsSrt(seg.end),
     IF SpeakerShown(d, SpeakerOf(seg))
     THEN <<"[", SpeakerOf(seg), "]", SP>> \o seg.text
     ELSE seg.text,
     <<>> >>

\* format_output_srt: the lines of the file, each a sequence of characters
\* and text tokens.
RECURSIVE SrtCues(_, _, _)
SrtCues(segs, n, d) ==
  IF n > Len(segs) THEN <<>>
  ELSE SrtCue(n, segs[n], d) \o SrtCues(segs, n + 1, d)

FormatOutputSrt(segs, d) == SrtCues(segs, 1, d)

\* The lines format_output_vtt appends for one segment.
VttCue(seg, d) ==
  << FormatTsVtt(seg.start) \o <<" --> ">> \o FormatTsVtt(seg.end),
     IF SpeakerShown(d, SpeakerOf(seg))
     THEN <<"<v ", SpeakerOf(seg), ">">> \o seg.text
     ELSE seg.text,
     <<>> >>

RECURSIVE VttCues(_, _)
VttCues(segs, d) ==
  IF segs = <<>> THEN <<>>
  ELSE VttCue(Head(segs), d) \o VttCues(Tail(segs), d)

\* format_output_vtt: the header, an empty line and the cues.
FormatOutputVtt(segs, d) == << <<"WEBVTT">>, <<>> >> \o VttCues(segs, d)

\* What main hands to the formatter and writes to the output file: the fields
\* of the json document, and the lines of the file under --format srt and
\* under --format vtt.
Rendered(d, n, text, segs) ==
  [written |-> TRUE, diarization |-> d, speakers |-> n, text |-> text,
   segments |-> segs,
   srt |-> FormatOutputSrt(segs, d), vtt |-> FormatOutputVtt(segs, d)]

\* len(set(s.get("speaker", "") for s in segments))
SpeakerCount(segs) ==
  Cardinality({ (IF "speaker" \in DOMAIN segs[k] THEN segs[k].speaker ELSE "") :
                  k \in 1..Len(segs) })

\* args.diarize as the except clause leaves it (mutant: not reset).
DiarizeAfterFallbackKept == diarize

\* args.diarize as the except clause of the diarized branch leaves it.
DiarizeAfterFallback == FALSE

\* The step of the heartbeat: p = min(p + 0.008, 0.13).
HbStep(p) == Min(p + 8, 130)

\* The checks before the try block: a missing input file or an unsupported
\* extension is reported and the process exits with code 1.
\* The checks with the test of the extension left out (mutant).
InputAcceptedAnyFormat(kind) == kind # "missing"

\* os.path.exists(input_path) and ext in SUPPORTED_EXTENSIONS
InputAccepted(kind) == kind = "ok"

MainValidate ==
  /\ pc = "start"
  /\ \E kind \in {"ok", "missing", "unsupported"} :
       /\ fault' = IF kind = "ok" THEN fault ELSE fault \cup {"input"}
       /\ IF InputAccepted(kind)
          THEN /\ pc' = "prepare"
               /\ UNCHANGED <<stderr, output, exit_code, temp_file>>
          ELSE /\ stderr' = Append(stderr, ErrorEvent)
               /\ exit_code' = 1
               /\ pc' = "exited"
               /\ UNCHANGED <<output, temp_file>>
  /\ UNCHANGED <<w_vars, dl_vars, eta_vars, inputs, diarize, i, plain_locals, segments, full_text,
                 num_speakers, diar_locals, hb_vars, warnings, asr_calls>>

\* report_progress(0.01), get_audio_duration, convert_to_wav.  The
\* conversion returns the temporary file, or removes it and raises (ffmpeg
\* fails, is missing or times out), or raises another exception and leaves
\* the file behind.
MainPrepare ==
  /\ pc = "prepare"
  /\ stderr' = Append(stderr, ProgressEvent(10, "preparing", "main"))
  /\ \E conv \in {"ok", "failed", "other"} :
       CASE conv = "ok" ->
              /\ temp_file' = "kept" /\ pc' = "load_audio" /\ UNCHANGED fault
         [] conv = "failed" ->
              /\ temp_file' = "removed" /\ pc' = "except"
              /\ fault' = fault \cup {"convert"}
         [] conv = "other" ->
              /\ temp_file' = "leaked" /\ pc' = "except"
              /\ fault' = fault \cup {"convert"}
  /\ UNCHANGED <<w_vars, dl_vars, eta_vars, inputs, diarize, i, plain_locals, segments, full_text,
                 num_speakers, diar_locals, hb_vars, warnings, asr_calls,
                 output, exit_code>>

\* report_progress(0.03), torchaudio.load, resample, mono.
MainLoadAudio ==
  /\ pc = "load_audio"
  /\ stderr' = Append(stderr, ProgressEvent(30, "preparing", "main"))
  /\ \E ok \in BOOLEAN :
       IF ok THEN pc' = "start_load" /\ UNCHANGED fault
       ELSE pc' = "except" /\ fault' = fault \cup {"load_audio"}
  /\ UNCHANGED <<w_vars, dl_vars, eta_vars, inputs, diarize, i, plain_locals, segments, full_text,
                 num_speakers, diar_locals, hb_vars, warnings, asr_calls,
                 output, exit_code, temp_file>>

\* report_progress(0.05); the heartbeat thread is started and
\* load_asr_model is called.
MainStartLoad ==
  /\ pc = "start_load"
  /\ stderr' = Append(stderr, ProgressEvent(50, "loading_model", "main"))
  /\ model_loaded' = FALSE
  /\ hb_pc' = "while"
  /\ hb_p' = 50
  /\ pc' = "loading"
  /\ UNCHANGED <<w_vars, dl_vars, eta_vars, inputs, diarize, i, plain_locals, segments, full_text,
                 num_speakers, diar_locals, beats, warnings, asr_calls,
                 outcome_vars>>

\* load_asr_model returns; model_loaded.set().
MainModelReady ==
  /\ pc = "loading"
  /\ model_loaded' = TRUE
  /\ pc' = "ready"
  /\ UNCHANGED <<w_vars, dl_vars, eta_vars, inputs, diarize, i, plain_locals, segments, full_text,
                 num_speakers, diar_locals, hb_pc, hb_p, beats, stderr,
                 warnings, asr_calls, outcome_vars>>

\* load_asr_model raises: gigaam.load_model raised and the error was
\* reported inside load_asr_model before the exception was raised again, or
\* the import failed or the model was None and nothing was reported.  The
\* event is not set.
MainLoadFails ==
  /\ pc = "loading"
  /\ \E reported \in BOOLEAN :
       stderr' = IF reported THEN Append(stderr, ErrorEvent) ELSE stderr
  /\ fault' = fault \cup {"load_model"}
  /\ pc' = "except"
  /\ UNCHANGED <<w_vars, dl_vars, eta_vars, inputs, diarize, i, plain_locals, segments, full_text,
                 num_speakers, diar_locals, hb_vars, warnings, asr_calls,
                 output, exit_code, temp_file>>

\* report_progress(0.14, "loading_model", "model ready")
MainReportReady ==
  /\ pc = "ready"
  /\ stderr' = Append(stderr, ProgressEvent(140, "loading_model", "main"))
  /\ pc' = "branch"
  /\ UNCHANGED <<w_vars, dl_vars, eta_vars, inputs, diarize, i, plain_locals, segments, full_text,
                 num_speakers, diar_locals, hb_vars, warnings, asr_calls,
                 outcome_vars>>

\* if args.diarize: the diarized pipeline; else report_progress(0.15) and
\* the plain pipeline.
MainBranch ==
  /\ pc = "branch"
  /\ IF diarize
     THEN pc' = "twd_call" /\ UNCHANGED stderr
     ELSE /\ stderr' = Append(stderr, ProgressEvent(PROGRESS_OFFSET, "transcribing", "main"))
          /\ pc' = "ta_call"
  /\ UNCHANGED <<w_vars, dl_vars, eta_vars, inputs, diarize, i, plain_locals, segments, full_text,
                 num_speakers, diar_locals, hb_vars, warnings, asr_calls,
                 outcome_vars>>

\* The except clause of the diarized branch: a warning, progress 0.15,
\* args.diarize = False, and the plain pipeline is called.
MainFallback ==
  /\ pc = "twd_raised"
  /\ warnings' = Append(warnings, "diarization")
  /\ stderr' = stderr \o << WarningEvent("diarization"),
                            ProgressEvent(PROGRESS_OFFSET, "transcribing", "main") >>
  /\ diarize' = DiarizeAfterFallback
  /\ fault' = fault \cup {"diarize"}
  /\ pc' = "ta_call"
  /\ UNCHANGED <<w_vars, dl_vars, eta_vars, inputs, i, plain_locals, segments, full_text, num_speakers,
                 diar_locals, hb_vars, asr_calls, output, exit_code, temp_file>>

\* num_speakers after the diarized pipeline returned.
MainAfterDiar ==
  /\ pc = "twd_ret"
  /\ num_speakers' = SpeakerCount(segments)
  /\ pc' = "save"
  /\ UNCHANGED <<w_vars, dl_vars, eta_vars, inputs, diarize, i, plain_locals, segments, full_text,
                 diar_locals, hb_vars, stderr, warnings, asr_calls,
                 outcome_vars>>

\* num_speakers = 0 after the plain pipeline returned.
MainAfterPlain ==
  /\ pc = "ta_ret"
  /\ num_speakers' = 0
  /\ pc' = "save"
  /\ UNCHANGED <<w_vars, dl_vars, eta_vars, inputs, diarize, i, plain_locals, segments, full_text,
                 diar_locals, hb_vars, stderr, warnings, asr_calls,
                 outcome_vars>>

\* report_progress(0.95), the formatter, and the write of the output file.
MainSave ==
  /\ pc = "save"
  /\ stderr' = Append(stderr, ProgressEvent(950, "saving", "main"))
  /\ \E ok \in BOOLEAN :
       IF ok
       THEN /\ output' = Rendered(diarize, num_speakers, full_text, segments)
            /\ pc' = "written"
            /\ UNCHANGED fault
       ELSE /\ fault' = fault \cup {"write"}
            /\ pc' = "except"
            /\ UNCHANGED output
  /\ UNCHANGED <<w_vars, dl_vars, eta_vars, inputs, diarize, i, plain_locals, segments, full_text,
                 num_speakers, diar_locals, hb_vars, warnings, asr_calls,
                 exit_code, temp_file>>

\* report_warnings_summary() and report_progress(1.0, "complete").
MainComplete ==
  /\ pc = "written"
  /\ stderr' = (IF warnings # <<>>
                THEN Append(stderr, WarningsSummary(warnings))
                ELSE stderr) \o << ProgressEvent(1000, "complete", "main") >>
  /\ pc' = "finally_ok"
  /\ UNCHANGED <<w_vars, dl_vars, eta_vars, inputs, diarize, i, plain_locals, segments, full_text,
                 num_speakers, diar_locals, hb_vars, warnings, asr_calls,
                 outcome_vars>>

\* An exception of the plain pipeline reaches the except clause of main.
MainPlainRaises ==
  /\ pc = "ta_raised"
  /\ fault' = fault \cup {"chunking"}
  /\ pc' = "except"
  /\ UNCHANGED <<w_vars, dl_vars, eta_vars, inputs, diarize, i, plain_locals, segments,
                 full_text, num_speakers, diar_locals, hb_vars, stderr, warnings,
                 asr_calls, output, exit_code, temp_file>>

\* except Exception: report_error(str(e)); sys.exit(1)
MainExcept ==
  /\ pc = "except"
  /\ stderr' = Append(stderr, ErrorEvent)
  /\ pc' = "finally_err"
  /\ UNCHANGED <<w_vars, dl_vars, eta_vars, inputs, diarize, i, plain_locals, segments, full_text,
                 num_speakers, diar_locals, hb_vars, warnings, asr_calls,
                 outcome_vars>>

\* The exit code of a run that always reports success (mutant).
ExitCodeAlwaysZero(p) == 0

\* The exit code: sys.exit(1) in the except clause, 0 when main returns.
ExitCodeOf(p) == IF p = "finally_ok" THEN 0 ELSE 1

\* finally: the converted file is removed if main holds its path; then the
\* process ends, and the daemon thread with it.
MainFinally ==
  /\ pc \in {"finally_ok", "finally_err"}
  /\ temp_file' = IF temp_file = "kept" THEN "removed" ELSE temp_file
  /\ exit_code' = ExitCodeOf(pc)
  /\ pc' = "exited"
  /\ UNCHANGED <<w_vars, dl_vars, eta_vars, inputs, diarize, i, plain_locals, segments, full_text,
                 num_speakers, diar_locals, hb_vars, stderr, warnings,
                 asr_calls, output, fault>>

NextMain ==
  \/ MainValidate \/ MainPrepare \/ MainLoadAudio
  \/ MainStartLoad \/ MainModelReady \/ MainLoadFails \/ MainReportReady
  \/ MainBranch \/ MainFallback \/ MainAfterDiar \/ MainAfterPlain
  \/ MainSave \/ MainComplete \/ MainExcept \/ MainFinally

\* while not model_loaded.is_set():
HbLoopTest ==
  /\ hb_pc = "while"
  /\ exit_code = -1
  /\ hb_pc' = IF model_loaded THEN "done" ELSE "wait"
  /\ UNCHANGED <<w_vars, dl_vars, eta_vars, inputs, diarize, pc, i, plain_locals, segments, full_text,
                 num_speakers, diar_locals, model_loaded, hb_p, beats, stderr,
                 warnings, asr_calls, outcome_vars>>

\* model_loaded.wait(timeout=1.5) returns: the event was set, or the
\* timeout passed (at most MaxBeats times in the model).
HbWait ==
  /\ hb_pc = "wait"
  /\ exit_code = -1
  /\ model_loaded \/ beats < MaxBeats
  /\ hb_pc' = "check"
  /\ UNCHANGED <<w_vars, dl_vars, eta_vars, inputs, diarize, pc, i, plain_locals, segments, full_text,
                 num_speakers, diar_locals, model_loaded, hb_p, beats, stderr,
                 warnings, asr_calls, outcome_vars>>

\* if not model_loaded.is_set():
HbCheck ==
  /\ hb_pc = "check"
  /\ exit_code = -1
  /\ hb_pc' = IF model_loaded THEN "while" ELSE "emit"
  /\ UNCHANGED <<w_vars, dl_vars, eta_vars, inputs, diarize, pc, i, plain_locals, segments, full_text,
                 num_speakers, diar_locals, model_loaded, hb_p, beats, stderr,
                 warnings, asr_calls, outcome_vars>>

\* p = min(p + 0.008, 0.13); report_progress(p, "loading_model", ...)
HbEmit ==
  /\ hb_pc = "emit"
  /\ exit_code = -1
  /\ hb_p' = HbStep(hb_p)
  /\ stderr' = Append(stderr, ProgressEvent(HbStep(hb_p), "loading_model", "hb"))
  /\ beats' = beats + 1
  /\ hb_pc' = "while"
  /\ UNCHANGED <<w_vars, dl_vars, eta_vars, inputs, diarize, pc, i, plain_locals, segments, full_text,
                 num_speakers, diar_locals, model_loaded, warnings, asr_calls,
                 outcome_vars>>

NextHb == HbLoopTest \/ HbWait \/ HbCheck \/ HbEmit

(***************************************************************************)
(* The model download of setup_env.py (_curl_download).                    *)
(***************************************************************************)
\* max_retries, the default of the parameter.
MAX_RETRIES == 10
\* timeout=3600 of subprocess.run, in seconds.
CURL_TIMEOUT == 3600

\* What one curl process can do: how long it runs (seconds) and its return
\* code (0 success, 22 HTTP error, 28 stalled connection).
CurlRuns ==
  { [seconds |-> 40, returncode |-> 0],
    [seconds |-> 12, returncode |-> 22],
    [seconds |-> 95, returncode |-> 28],
    [seconds |-> 3601, returncode |-> 0] }

\* subprocess.run raises TimeoutExpired for a process that runs longer
\* than the timeout.
TimesOut(run) == run.seconds > CURL_TIMEOUT

\* delay = min(5 * attempt, 30)
Delay(k) == Min(5 * k, 30)

\* 0.55 + 0.015 * attempt, in thousandths.
RetryProgress(k) == 550 + 15 * k

DlUnchanged ==
  UNCHANGED <<w_vars, inputs, diarize, pc, i, plain_locals, segments, full_text,
              num_speakers, diar_locals, hb_vars, eta_vars, stderr, warnings,
              asr_calls, outcome_vars>>

\* subprocess.run returns: the process ended within the timeout.
DlRun ==
  /\ dl_pc = "run"
  /\ \E run \in CurlRuns :
       /\ ~TimesOut(run)
       /\ curl_runs' = Append(curl_runs, run)
  /\ dl_pc' = "check"
  /\ UNCHANGED <<attempt, sleeps, setup_reports>>
  /\ DlUnchanged

\* subprocess.run raises TimeoutExpired: no handler in _curl_download, the
\* exception leaves the function.
DlRunTimeout ==
  /\ dl_pc = "run"
  /\ \E run \in CurlRuns :
       /\ TimesOut(run)
       /\ curl_runs' = Append(curl_runs, run)
  /\ dl_pc' = "raised"
  /\ UNCHANGED <<attempt, sleeps, setup_reports>>
  /\ DlUnchanged

\* if result.returncode == 0: return True
DlSuccess ==
  /\ dl_pc = "check"
  /\ curl_runs[Len(curl_runs)].returncode = 0
  /\ dl_pc' = "returned_true"
  /\ UNCHANGED <<attempt, curl_runs, sleeps, setup_reports>>
  /\ DlUnchanged

\* if attempt < max_retries: report, sleep, and the next iteration.
DlBackoff ==
  /\ dl_pc = "check"
  /\ curl_runs[Len(curl_runs)].returncode # 0
  /\ attempt < MAX_RETRIES
  /\ setup_reports' = Append(setup_reports, RetryProgress(attempt))
  /\ sleeps' = Append(sleeps, Delay(attempt))
  /\ attempt' = attempt + 1
  /\ dl_pc' = "run"
  /\ UNCHANGED curl_runs
  /\ DlUnchanged

\* The last iteration failed: the loop ends, return False.
DlGiveUp ==
  /\ dl_pc = "check"
  /\ curl_runs[Len(curl_runs)].returncode # 0
  /\ ~(attempt < MAX_RETRIES)
  /\ dl_pc' = "returned_false"
  /\ UNCHANGED <<attempt, curl_runs, sleeps, setup_reports>>
  /\ DlUnchanged

NextDl == DlRun \/ DlRunTimeout \/ DlSuccess \/ DlBackoff \/ DlGiveUp

(***************************************************************************)
(* watcher.py: AudioFileHandler and its debounce thread.                   *)
(***************************************************************************)
\* --debounce, in seconds (5.0 by default).
debounce_seconds == 2
\* The last second of the clock the model follows; the clock then stays.
MaxWatchTime == 5

DEFAULT_EXTENSIONS ==
  {".wav", ".mp3", ".m4a", ".flac", ".ogg", ".mp4", ".mkv", ".webm", ".mov"}

\* The directories to skip, as Path(skip).parts.
SKIP_DIRS ==
  { <<".Trash">>, <<"Library", "Caches">>, <<"Library", "Logs">>,
    <<"Library", "Saved Application State">>, <<"Library", "WebKit">>,
    <<"Library", "Containers">>, <<"Library", "Developer">>,
    <<"Library", "Group Containers">>, <<".cache">>, <<".npm">>, <<".yarn">>,
    <<".gradle">>, <<".cargo">>, <<"node_modules">>, <<".git">>,
    <<"__pycache__">>, <<".venv">>, <<"venv">> }

\* A path: Path(path).parts and Path(path).suffix.
MediaA == [parts |-> <<"Users", "u", "a.mp3">>, suffix |-> ".mp3"]
MediaB == [parts |-> <<"Users", "u", "b.MP3">>, suffix |-> ".MP3"]
Notes == [parts |-> <<"Users", "u", "notes.txt">>, suffix |-> ".txt"]
Cached == [parts |-> <<"Users", "u", "Library", "Caches", "c.wav">>, suffix |-> ".wav"]
WatchedPaths == {MediaA, MediaB, Notes, Cached}
\* The media files, which come and go; the others exist throughout.
Transient == {MediaA, MediaB}

\* str.lower() on the suffixes of the paths above.
Lower(suffix) == IF suffix = ".MP3" THEN ".mp3" ELSE suffix

\* _is_audio_file
IsAudioFile(path) == Lower(path.suffix) \in DEFAULT_EXTENSIONS

\* should_skip_path
ShouldSkipPath(path) ==
  \E skip \in SKIP_DIRS :
    \E k \in 1..(Len(path.parts) - Len(skip) + 1) :
      SubSeq(path.parts, k, k + Len(skip) - 1) = skip

NoEvent == -1

\* self._pending[path] = t: a new key goes last, a known key keeps its place.
SetPending(pend, path, t) ==
  IF \E k \in 1..Len(pend) : pend[k][1] = path
  THEN [k \in 1..Len(pend) |-> IF pend[k][1] = path THEN <<path, t>> ELSE pend[k]]
  ELSE Append(pend, <<path, t>>)

\* The handler of on_created and of on_modified.
Handle(src_path, is_directory) ==
  /\ w_time + debounce_seconds < MaxWatchTime
  /\ IF is_directory
     THEN UNCHANGED <<w_pending, last_event>>
     ELSE /\ last_event' = IF src_path \in DOMAIN last_event
                           THEN [last_event EXCEPT ![src_path] = w_time]
                           ELSE last_event
          /\ IF IsAudioFile(src_path) /\ ~ShouldSkipPath(src_path)
             THEN w_pending' = SetPending(w_pending, src_path, w_time)
             ELSE UNCHANGED w_pending
  /\ UNCHANGED <<w_time, w_exists, w_reported, deb_pc, wake_at, deb_now, ready, emitted>>

WatchUnchanged ==
  UNCHANGED <<dl_vars, inputs, diarize, pc, i, plain_locals, segments, full_text,
              num_speakers, diar_locals, hb_vars, eta_vars, stderr, warnings,
              asr_calls, outcome_vars>>

OnCreated ==
  /\ deb_pc # "off"
  /\ \E src_path \in WatchedPaths, is_directory \in BOOLEAN : Handle(src_path, is_directory)
  /\ WatchUnchanged

OnModified ==
  /\ deb_pc # "off"
  /\ \E src_path \in WatchedPaths, is_directory \in BOOLEAN : Handle(src_path, is_directory)
  /\ WatchUnchanged

\* time.sleep(1.0) returns.
DebWake ==
  /\ deb_pc = "sleep"
  /\ w_time >= wake_at \/ w_time = MaxWatchTime
  /\ deb_pc' = "now"
  /\ UNCHANGED <<w_time, w_exists, w_pending, w_reported, wake_at, deb_now, ready,
                 emitted, last_event>>
  /\ WatchUnchanged

\* now = time.monotonic(); ready = []
DebNow ==
  /\ deb_pc = "now"
  /\ deb_now' = w_time
  /\ ready' = <<>>
  /\ deb_pc' = "lock"
  /\ UNCHANGED <<w_time, w_exists, w_pending, w_reported, wake_at, emitted, last_event>>
  /\ WatchUnchanged

\* (now - last_seen) >= self.debounce_seconds
IsReady(entry, now) == (now - entry[2]) >= debounce_seconds

\* The loop under the lock: the ready paths leave _pending.
DebCollect ==
  /\ deb_pc = "lock"
  /\ LET due == SelectSeq(w_pending, LAMBDA e : IsReady(e, deb_now))
     IN  ready' = [k \in 1..Len(due) |-> due[k][1]]
  /\ w_pending' = SelectSeq(w_pending, LAMBDA e : ~IsReady(e, deb_now))
  /\ deb_pc' = "report"
  /\ UNCHANGED <<w_time, w_exists, w_reported, wake_at, deb_now, emitted, last_event>>
  /\ WatchUnchanged

\* if path not in self._reported (mutant: the test left out).
NotYetReportedAlways(path) == TRUE

\* if path not in self._reported
NotYetReported(path) == path \notin w_reported

\* One iteration of `for path in ready`.
DebReport ==
  /\ deb_pc = "report"
  /\ ready # <<>>
  /\ LET path == Head(ready)
     IN  IF NotYetReported(path) /\ path \in w_exists
         THEN /\ w_reported' = w_reported \cup {path}
              /\ emitted' = Append(emitted, [path |-> path, at |-> w_time])
         ELSE UNCHANGED <<w_reported, emitted>>
  /\ ready' = Tail(ready)
  /\ UNCHANGED <<w_time, w_exists, w_pending, deb_pc, wake_at, deb_now, last_event>>
  /\ WatchUnchanged

\* The for loop is over: the next iteration of `while True` begins.
DebLoop ==
  /\ deb_pc = "report"
  /\ ready = <<>>
  /\ deb_pc' = "sleep"
  /\ wake_at' = w_time + 1
  /\ UNCHANGED <<w_time, w_exists, w_pending, w_reported, deb_now, ready, emitted,
                 last_event>>
  /\ WatchUnchanged

\* One second passes.
Tick ==
  /\ deb_pc # "off"
  /\ w_time < MaxWatchTime
  /\ w_time' = w_time + 1
  /\ UNCHANGED <<w_exists, w_pending, w_reported, deb_pc, wake_at, deb_now, ready,
                 emitted, last_event>>
  /\ WatchUnchanged

\* A file is created, moved in or restored.
FileAppears ==
  /\ deb_pc # "off"
  /\ \E path \in Transient \ w_exists : w_exists' = w_exists \cup {path}
  /\ UNCHANGED <<w_time, w_pending, w_reported, deb_pc, wake_at, deb_now, ready,
                 emitted, last_event>>
  /\ WatchUnchanged

\* A file is deleted or moved away.
FileVanishes ==
  /\ deb_pc # "off"
  /\ \E path \in Transient \cap w_exists : w_exists' = w_exists \ {path}
  /\ UNCHANGED <<w_time, w_pending, w_reported, deb_pc, wake_at, deb_now, ready,
                 emitted, last_event>>
  /\ WatchUnchanged

Debounce == DebWake \/ DebNow \/ DebCollect \/ DebReport \/ DebLoop

NextWatch ==
  \/ OnCreated \/ OnModified
  \/ Debounce
  \/ Tick \/ FileAppears \/ FileVanishes

(***************************************************************************)
(* Inputs.                                                                 *)
(***************************************************************************)

\* The progress lines main has written when it calls transcribe_audio.
StderrBeforePlain ==
  << ProgressEvent(10, "preparing", "main"), ProgressEvent(30, "preparing", "main"),
     ProgressEvent(50, "loading_model", "main"), ProgressEvent(140, "loading_model", "main"),
     ProgressEvent(150, "transcribing", "main") >>

\* (chunk_duration, chunk_overlap) pairs of the plain-pipeline inputs.
PlainConfigs == { <<2, 0>>, <<2, 1>>, <<3, 1>>, <<3, 2>> }

\* Buffer lengths in samples: every tenth of a second up to the bound and
\* one sample less than each, and the empty buffer.
BufferLens ==
  { q * (SAMPLE_RATE \div 10) - e : q \in 1..MaxLenTenths, e \in {0, 1} } \cup {0}

\* (chunk_duration, chunk_overlap, total_samples) of the plain-pipeline
\* inputs: the pairs above on every length, and the defaults of the command
\* line (20, 4) on buffers around the documented example of 45 s.
PlainInputs ==
  { <<c[1], c[2], n>> : c \in PlainConfigs, n \in BufferLens }
    \cup { <<20, 4, s * SAMPLE_RATE>> : s \in {19, 20, 21, 36, 45} }

\* --min-segment as the command line defaults it: 0.2 s, in ticks.
DefaultMinSegment == (2 * SEC) \div 10

InitState ==
  /\ merge_gap = (8 * SEC) \div 10
  /\ expansion_pad = 3
  /\ chunks = <<>> /\ i = 0 /\ texts = <<>>
  /\ segments = <<>> /\ full_text = <<>> /\ num_speakers = 0
  /\ diar_segments = <<>> /\ results = <<>> /\ merged = <<>> /\ cur = NoCur
  /\ warnings = <<>> /\ asr_calls = <<>>
  /\ chunk_times = <<>> /\ segment_times = <<>>
  /\ curl_runs = <<>> /\ sleeps = <<>> /\ setup_reports = <<>>
  /\ output = NoOutput /\ exit_code = -1 /\ temp_file = "none" /\ fault = {}

\* The watcher is not running.
WatcherIdle ==
  /\ w_time = 0 /\ w_exists = {} /\ w_pending = <<>> /\ w_reported = {}
  /\ deb_pc = "off" /\ wake_at = 0 /\ deb_now = 0 /\ ready = <<>>
  /\ emitted = <<>> /\ last_event = <<>>

\* A run of the transcription engine: no download is in progress.
InitCommon ==
  /\ InitState
  /\ WatcherIdle
  /\ dl_pc = "idle" /\ attempt = 0

InitPlain ==
  /\ InitCommon
  /\ clock = {1000}
  /\ min_segment = DefaultMinSegment
  /\ \E c \in PlainInputs :
       chunk_duration = c[1] /\ chunk_overlap = c[2] /\ total_samples = c[3]
  /\ diarize = FALSE
  /\ raw_turns = NoTurns
  /\ asr_faults = {"fail", "blank"}
  /\ pc = "ta_call"
  /\ model_loaded = TRUE /\ hb_pc = "done" /\ hb_p = 50 /\ beats = 0
  /\ stderr = StderrBeforePlain

SpecPlain == InitPlain /\ [][NextPlain]_vars

\* The turns the diarized inputs are made of, in start order.  The first,
\* third and fourth are the documented example (0,5,A), (5.2,9,A), (9,12,B);
\* the others are a turn too short to survive the filter, a turn shorter
\* than 0.5 s, a turn inside the turn before the last, of the same speaker,
\* a turn of exactly 0.5 s, a turn longer than a chunk and a turn of exactly
\* chunk_duration - chunk_overlap = 16 s.
TurnPool ==
  << Turn(0, 5 * SEC, "A"),
     Turn(5 * SEC + 4 * MS, 5 * SEC + 104 * MS, "B"),
     Turn(5 * SEC + 200 * MS, 9 * SEC, "A"),
     Turn(9 * SEC, 12 * SEC, "B"),
     Turn(9 * SEC + 300 * MS + 7, 9 * SEC + 700 * MS + 3, "A"),
     Turn(9 * SEC + 500 * MS, 11 * SEC, "B"),
     Turn(12 * SEC + 500 * MS, 13 * SEC, "A"),
     Turn(12 * SEC + 801 * MS + 1, 31 * SEC - 3 * MS, "B"),
     Turn(13 * SEC, 29 * SEC, "A") >>

\* The subsequence of a sequence at a set of positions.
RECURSIVE SubSeqAt(_, _, _)
SubSeqAt(seq, S, k) ==
  IF k > Len(seq) THEN <<>>
  ELSE (IF k \in S THEN <<seq[k]>> ELSE <<>>) \o SubSeqAt(seq, S, k + 1)

\* The subsequences of the pool of at most MaxTurns turns.
TurnSeqs ==
  { SubSeqAt(TurnPool, S, 1) :
      S \in { T \in SUBSET (1..Len(TurnPool)) : Cardinality(T) <= MaxTurns } }

\* Buffer lengths of the diarized inputs, in samples: 15 s and 32 s.
DiarLens == { 15 * SAMPLE_RATE, 32 * SAMPLE_RATE }

\* The progress lines main has written when it calls
\* transcribe_with_diarization.
StderrBeforeDiar ==
  << ProgressEvent(10, "preparing", "main"), ProgressEvent(30, "preparing", "main"),
     ProgressEvent(50, "loading_model", "main"), ProgressEvent(140, "loading_model", "main") >>

\* The inputs of the diarized pipeline: the turn sequences above with the
\* default minimum segment duration, and a buffer of 16.4 s, whose tail ends
\* with a chunk of 0.4 s, with a minimum segment duration of 0.5 s.
InitDiar ==
  /\ InitCommon
  /\ clock = {1000}
  /\ chunk_duration = 20 /\ chunk_overlap = 4
  /\ \/ /\ min_segment = DefaultMinSegment
        /\ total_samples \in DiarLens
        /\ raw_turns \in TurnSeqs
     \/ /\ min_segment = SEC \div 2
        /\ total_samples = (164 * SAMPLE_RATE) \div 10
        /\ raw_turns \in { NoTurns, <<TurnPool[1]>> }
  /\ \A k \in 1..Len(raw_turns) : raw_turns[k].end <= SecondsOf(total_samples)
  /\ asr_faults \in { {"fail"}, {"blank"} }
  /\ diarize = TRUE
  /\ pc = "twd_call"
  /\ model_loaded = TRUE /\ hb_pc = "done" /\ hb_p = 50 /\ beats = 0
  /\ stderr = StderrBeforeDiar

SpecDiar == InitDiar /\ [][NextDiar]_vars

\* The turn sequences of the runs of main: no turn, the documented
\* example, a short turn before a turn longer than a chunk, and a turn of
\* 0.4 s between two others.
MainTurnSeqs ==
  { SubSeqAt(TurnPool, S, 1) : S \in { {}, {1, 3, 4}, {1, 8}, {3, 5, 7} } }

\* Buffer lengths of the runs of main, in samples: 15 s and 32 s.
MainLens == { 15 * SAMPLE_RATE, 32 * SAMPLE_RATE }

\* A run of main from the parsed arguments.
InitMain ==
  /\ InitCommon
  /\ clock = {1000}
  /\ min_segment = DefaultMinSegment
  /\ chunk_duration = 20 /\ chunk_overlap = 4
  /\ total_samples \in MainLens
  /\ diarize \in BOOLEAN
  /\ raw_turns \in (IF diarize THEN MainTurnSeqs ELSE {NoTurns})
  /\ \A k \in 1..Len(raw_turns) : raw_turns[k].end <= SecondsOf(total_samples)
  /\ asr_faults \in { {"fail"}, {"blank"} }
  /\ pc = "start"
  /\ model_loaded = FALSE /\ hb_pc = "idle" /\ hb_p = 50 /\ beats = 0
  /\ stderr = <<>>

\* The inputs of the progress estimate: the two pipelines with an ASR model
\* that answers every call or fails every call, each unit taking 0.4 s or
\* 1.05 s.
InitEta ==
  /\ InitCommon
  /\ min_segment = DefaultMinSegment
  /\ clock = {400, 1050}
  /\ \/ /\ diarize = FALSE
        /\ \E c \in { <<2, 0, 1>>, <<2, 0, 7>>, <<2, 1, 4>>, <<3, 1, 9>> } :
             /\ chunk_duration = c[1] /\ chunk_overlap = c[2]
             /\ total_samples = c[3] * SAMPLE_RATE
        /\ raw_turns = NoTurns
        /\ pc = "ta_call"
        /\ stderr = StderrBeforePlain
     \/ /\ diarize = TRUE
        /\ chunk_duration = 20 /\ chunk_overlap = 4
        /\ total_samples \in MainLens
        /\ raw_turns \in MainTurnSeqs
        /\ \A k \in 1..Len(raw_turns) : raw_turns[k].end <= SecondsOf(total_samples)
        /\ pc = "twd_call"
        /\ stderr = StderrBeforeDiar
  /\ asr_faults \in { {}, {"dead"} }
  /\ model_loaded = TRUE /\ hb_pc = "done" /\ hb_p = 50 /\ beats = 0

NextEta == NextPlain \/ NextDiar

SpecEta == InitEta /\ [][NextEta]_vars

\* The call _curl_download(url, dest) of download_gigaam_models; the
\* transcription engine is not running.
InitDl ==
  /\ InitState
  /\ WatcherIdle
  /\ dl_pc = "run" /\ attempt = 1
  /\ min_segment = DefaultMinSegment
  /\ clock = {1000}
  /\ chunk_duration = 20 /\ chunk_overlap = 4 /\ total_samples = 0
  /\ diarize = FALSE /\ raw_turns = NoTurns /\ asr_faults = {}
  /\ pc = "exited"
  /\ model_loaded = FALSE /\ hb_pc = "done" /\ hb_p = 50 /\ beats = 0
  /\ stderr = <<>>

SpecDl == InitDl /\ [][NextDl]_vars

\* The two users of the chunk loop: the plain pipeline on the inputs of
\* SpecPlain, and the diarized pipeline on the turn sequences of the runs of
\* main, whose tails are chunked.
InitCover ==
  \/ InitPlain
  \/ InitDiar /\ raw_turns \in MainTurnSeqs

NextCover == NextPlain \/ NextDiar

SpecCover == InitCover /\ [][NextCover]_vars

\* The watcher after AudioFileHandler.__init__: nothing pending, nothing
\* reported, the debounce thread started; the transcription engine is not
\* running.
InitWatch ==
  /\ InitState
  /\ dl_pc = "idle" /\ attempt = 0
  /\ min_segment = DefaultMinSegment
  /\ clock = {1000}
  /\ chunk_duration = 20 /\ chunk_overlap = 4 /\ total_samples = 0
  /\ diarize = FALSE /\ raw_turns = NoTurns /\ asr_faults = {}
  /\ pc = "exited"
  /\ model_loaded = FALSE /\ hb_pc = "done" /\ hb_p = 50 /\ beats = 0
  /\ stderr = <<>>
  /\ w_time = 0
  /\ w_exists \in { (WatchedPaths \ Transient) \cup S : S \in SUBSET Transient }
  /\ w_pending = <<>> /\ w_reported = {}
  /\ deb_pc = "sleep" /\ wake_at = 1 /\ deb_now = 0 /\ ready = <<>>
  /\ emitted = <<>>
  /\ last_event = [p \in Transient |-> NoEvent]

SpecWatch == InitWatch /\ [][NextWatch]_vars

\* The watcher with a debounce thread that keeps running (a daemon thread in
\* an endless `while True` loop) and a clock that keeps advancing.
SpecWatchLive ==
  InitWatch /\ [][NextWatch]_vars /\ WF_vars(Debounce) /\ WF_vars(Tick)

Next == NextMain \/ NextHb \/ NextPlain \/ NextDiar

Spec == InitMain /\ [][Next]_vars

\* Runs of main with the chunk duration and overlap the command line accepts
\* without a check: the runs of InitMain, and runs without --diarize over a
\* buffer of 5 s with an overlap below, equal to and above the duration.
CliConfigs == { <<2, 1>>, <<2, 2>>, <<2, 3>>, <<3, 7>> }

InitCli ==
  \/ InitMain
  \/ /\ InitCommon
     /\ clock = {1000}
     /\ min_segment = DefaultMinSegment
     /\ \E c \in CliConfigs : chunk_duration = c[1] /\ chunk_overlap = c[2]
     /\ total_samples = 5 * SAMPLE_RATE
     /\ diarize = FALSE /\ raw_turns = NoTurns
     /\ asr_faults \in { {"fail"}, {"blank"} }
     /\ pc = "start"
     /\ model_loaded = FALSE /\ hb_pc = "idle" /\ hb_p = 50 /\ beats = 0
     /\ stderr = <<>>

NextCli == Next \/ TaRangeError \/ MainPlainRaises

SpecCli == InitCli /\ [][NextCli]_vars

\* Runs of main with a model that answers every call or fails every call:
\* the runs of InitMain, and runs of the plain pipeline (asked for, or as
\* the fallback of a failed diarization) over MaxFailedChunks + 1 chunks of
\* two seconds.
InitWarn ==
  /\ InitCommon
  /\ clock = {1000}
  /\ min_segment = DefaultMinSegment
  /\ \/ /\ chunk_duration = 20 /\ chunk_overlap = 4
        /\ total_samples \in MainLens
        /\ diarize \in BOOLEAN
        /\ raw_turns \in (IF diarize THEN MainTurnSeqs ELSE {NoTurns})
     \/ /\ chunk_duration = 2 /\ chunk_overlap = 0
        /\ total_samples = (MaxFailedChunks + 1) * 2 * SAMPLE_RATE
        /\ diarize \in BOOLEAN
        /\ raw_turns = NoTurns
  /\ \A k \in 1..Len(raw_turns) : raw_turns[k].end <= SecondsOf(total_samples)
  /\ asr_faults \in { {}, {"dead"} }
  /\ pc = "start"
  /\ model_loaded = FALSE /\ hb_pc = "idle" /\ hb_p = 50 /\ beats = 0
  /\ stderr = <<>>

SpecWarn == InitWarn /\ [][Next]_vars

(***************************************************************************)
(* The chunk scheduler of the plain pipeline (C1 - C4).                    *)
(***************************************************************************)
\* The slices handed to the ASR model so far, in order.
CallSpans == [k \in 1..Len(asr_calls) |-> Slice(asr_calls[k].start, asr_calls[k].end)]

\* The plain pipeline has built its chunk list (more than one chunk's worth
\* of audio).
ChunksBuilt == pc \in {"ta_loop", "ta_ret"} /\ ~SingleChunk(total_samples, ChunkSamples)

\* ceil(a / b) for b > 0.
CeilDiv(a, b) == -((-a) \div b)

\* The k-th range of the documented recurrence, k = 0, 1, ...
RangeStart(k) == k * (chunk_duration - chunk_overlap) * SAMPLE_RATE
RangeEnd(k) == Min(RangeStart(k) + chunk_duration * SAMPLE_RATE, total_samples)
RangeShort(k) == 10 * (RangeEnd(k) - RangeStart(k)) < 3 * SAMPLE_RATE

\* The index of the first range shorter than 0.3 s.
FirstShort ==
  CHOOSE k \in 0..(total_samples \div SAMPLE_RATE + 1) :
    RangeShort(k) /\ \A j \in 0..(k - 1) : ~RangeShort(j)

ExpectedRanges == [k \in 1..FirstShort |-> <<RangeStart(k - 1), RangeEnd(k - 1)>>]

\* C1: for a buffer longer than D (0 <= O < D) the chunk list is exactly the
\* ranges start_0 = 0, start_{i+1} = start_i + (D - O) * sr,
\* end_i = min(start_i + D * sr, total_samples), in order, up to the first
\* range shorter than 0.3 s, which is dropped; the ranges handed to the ASR
\* model are these, in order, and nothing else.
C1_ChunkRanges ==
  ChunksBuilt =>
    /\ chunks = ExpectedRanges
    /\ CallSpans = [k \in 1..i |-> Slice(ExpectedRanges[k][1], ExpectedRanges[k][2])]

\* A run that dropped a tail shorter than 0.3 s which no chunk covers.
C1_Witness ==
  /\ ChunksBuilt /\ pc = "ta_ret"
  /\ Len(chunks) >= 2
  /\ chunks[Len(chunks)][2] < total_samples
  /\ Len(asr_calls) = Len(chunks)

\* The number of ranges the spec states: ceil((L - O) / (D - O)), less one
\* when the last of them is shorter than 0.3 s.
StatedCount ==
  LET n == CeilDiv(total_samples - chunk_overlap * SAMPLE_RATE,
                   (chunk_duration - chunk_overlap) * SAMPLE_RATE)
  IN  IF n >= 1 /\ RangeShort(n - 1) THEN n - 1 ELSE n

\* C2 as stated: the number of ranges is ceil((L - O) / (D - O)) minus a
\* trailing remainder shorter than 0.3 s.
C2_StatedCount == ChunksBuilt => Len(chunks) = StatedCount

\* The number of ranges of the code: one per start below the end of the
\* buffer, ceil(L / (D - O)), less one when the last is shorter than 0.3 s.
StartCount ==
  LET n == CeilDiv(total_samples, (chunk_duration - chunk_overlap) * SAMPLE_RATE)
  IN  IF RangeShort(n - 1) THEN n - 1 ELSE n

\* C2 amended: for a buffer longer than D the number of ranges is
\* ceil(L / (D - O)), minus one when the last of these ranges is shorter
\* than 0.3 s.
C2_StartCount == ChunksBuilt => Len(chunks) = StartCount

\* A run whose last range lies wholly inside the range before it: the
\* stated count is one short of the code's.
C2_Witness ==
  /\ ChunksBuilt /\ pc = "ta_ret"
  /\ Len(chunks) = StatedCount + 1
  /\ chunks[Len(chunks) - 1][2] = total_samples

\* The documented example: 45 s, D = 20, O = 4.
Example45 ==
  /\ chunk_duration = 20 /\ chunk_overlap = 4
  /\ total_samples = 45 * SAMPLE_RATE
  /\ pc \in {"ta_loop", "ta_ret"}

InSeconds(ranges) ==
  [k \in 1..Len(ranges) |-> <<ranges[k][1] * SAMPLE_RATE, ranges[k][2] * SAMPLE_RATE>>]

\* C3 as stated: the example yields [0,20), [16,36), [36,45).
C3_StatedExample ==
  Example45 => chunks = InSeconds(<< <<0, 20>>, <<16, 36>>, <<36, 45>> >>)

\* C3 amended: the example yields [0,20), [16,36), [32,45), in that order.
C3_Example ==
  Example45 => chunks = InSeconds(<< <<0, 20>>, <<16, 36>>, <<32, 45>> >>)

\* The example has run to its end, every range transcribed.
C3_Witness == Example45 /\ pc = "ta_ret" /\ Len(asr_calls) = 3

\* C4: for a buffer shorter than D the plain pipeline makes one range of the
\* whole buffer: the ASR model is called at most once, on the whole buffer,
\* and a non-empty result gives the single segment 0 .. total_samples / sr.
C4_SingleRange ==
  (pc = "ta_ret" /\ total_samples < chunk_duration * SAMPLE_RATE) =>
    /\ Len(asr_calls) <= 1
    /\ \A k \in 1..Len(asr_calls) : CallSpans[k] = Slice(0, total_samples)
    /\ full_text # <<>> =>
         segments = <<[start |-> 0, end |-> total_samples * TICKS, text |-> full_text]>>
    /\ full_text = <<>> => segments = <<>>

\* A short buffer whose single call returned text.
C4_Witness ==
  /\ pc = "ta_ret" /\ total_samples < chunk_duration * SAMPLE_RATE
  /\ Len(asr_calls) = 1 /\ Len(segments) = 1
  /\ total_samples % (SAMPLE_RATE \div 100) # 0

(***************************************************************************)
(* The diarized pipeline (C5 - C7).                                        *)
(***************************************************************************)
Last(seq) == seq[Len(seq)]
Span(x) == <<x.start, x.end, x.speaker>>
Spans(segs) == [k \in 1..Len(segs) |-> Span(segs[k])]
Labelled(segs) == SelectSeq(segs, LAMBDA x : x.speaker # "")
Unlabelled(segs) == SelectSeq(segs, LAMBDA x : x.speaker = "")

\* The documented example of the merge: (0,5,A), (5.2,9,A), (9,12,B) with
\* merge_gap = 0.8.
ExampleTurns ==
  /\ raw_turns = << Turn(0, 5 * SEC, "A"), Turn(5 * SEC + (2 * SEC) \div 10, 9 * SEC, "A"),
                    Turn(9 * SEC, 12 * SEC, "B") >>
  /\ 10 * merge_gap = 8 * SEC

\* One iteration of the merge loop, as the claim has it: the next result r
\* joins the previous output segment iff both carry the same non-empty
\* speaker and r starts less than merge_gap after it ends.
MergeStepAsClaimed ==
  LET r == results[cur.j + 1]
      prev == Last(merged)
      joins == /\ merged # <<>>
               /\ prev.speaker = r.speaker /\ r.speaker # ""
               /\ (r.start - prev.end) < merge_gap
  IN  IF joins
      THEN /\ Len(merged') = Len(merged)
           /\ SubSeq(merged', 1, Len(merged) - 1) = SubSeq(merged, 1, Len(merged) - 1)
           /\ Last(merged') = [start |-> prev.start, end |-> r.end, speaker |-> prev.speaker,
                               text |-> prev.text \o <<" ">> \o r.text]
      ELSE merged' = merged \o <<r>>

\* C5: in the merge step a segment merges into the previous output segment
\* iff both have the same non-empty speaker and (start - previous.end) <
\* merge_gap; the merged text is the space-concatenation of the parts; a gap
\* >= merge_gap, an empty or a different speaker never merges; the example
\* turns give (0,9,A) and a separate (9,12,B).
C5_MergeRule ==
  /\ [][(pc = "twd_merge" /\ cur'.j = cur.j + 1) => MergeStepAsClaimed]_vars
  /\ []((ExampleTurns /\ pc = "twd_ret") =>
          Spans(Labelled(segments)) = << <<0, 9 * SEC, "A">>, <<9 * SEC, 12 * SEC, "B">> >>)

\* A run in which one result merged into the previous segment and another
\* with the same speaker, merge_gap or more later, did not.
C5_Witness ==
  /\ pc = "twd_ret"
  /\ \E k \in 1..Len(segments) : Len(segments[k].text) = 3 /\ segments[k].text[2] = " "
  /\ \E k \in 1..(Len(segments) - 1) :
       /\ segments[k].speaker = segments[k + 1].speaker
       /\ segments[k].speaker # ""
       /\ segments[k + 1].start - segments[k].end = merge_gap

IsPlaceholder(x) == x.text = <<"[...]">>

\* How often a token occurs in a text.
Occurrences(text, tok) == Cardinality({k \in 1..Len(text) : text[k] = tok})

\* How many "[...]" the texts of a sequence of segments hold.
RECURSIVE Marks(_)
Marks(segs) ==
  IF segs = <<>> THEN 0
  ELSE Occurrences(Head(segs).text, "[...]") + Marks(Tail(segs))

\* C6 as stated: a turn of 0.5 s or more without text after the retry is in
\* the output as a segment whose text is exactly "[...]".
C6_StatedPlaceholder ==
  pc = "twd_ret" =>
    \A k \in 1..Len(results) :
      IsPlaceholder(results[k]) =>
        \E m \in 1..Len(segments) :
          IsPlaceholder(segments[m]) /\ segments[m].start = results[k].start

\* The end of a turn's iteration, as the claim has it.
TurnEndAsClaimed ==
  LET seg == diar_segments[i + 1]
      dur == (seg.end \div TICKS - seg.start \div TICKS) * TICKS
      here == [start |-> Round2(seg.start), end |-> Round2(seg.end),
               speaker |-> seg.speaker_id]
  IN  IF cur.text # <<>>
      THEN /\ Len(results') = Len(results) + 1
           /\ Last(results').text = cur.text /\ Span(Last(results')) = Span(here)
      ELSE IF 2 * dur >= SEC
      THEN /\ pc = "twd_emit"
           /\ Len(results') = Len(results) + 1
           /\ Last(results').text = <<"[...]">> /\ Span(Last(results')) = Span(here)
      ELSE results' = results

\* A placeholder result and a neighbour of it in results merge.
MergesWithNeighbour(k) ==
  \E n \in {k - 1, k} :
    /\ n >= 1 /\ n + 1 <= Len(results)
    /\ results[n].speaker = results[n + 1].speaker
    /\ results[n + 1].start - results[n].end < merge_gap

\* C6 amended: a turn of 0.5 s or more without text after the expansion
\* retry is recorded as a segment with text exactly "[...]"; in the output it
\* is a segment of its own with that text unless the merge step joins it with
\* a neighbouring segment of the same speaker less than merge_gap away, and
\* then "[...]" is one of the space-joined parts of the merged text.  A turn
\* shorter than 0.5 s without text contributes no segment.
C6_Placeholder ==
  /\ [][(pc \in {"twd_retry", "twd_emit"} /\ i' = i + 1) => TurnEndAsClaimed]_vars
  /\ [](pc = "twd_ret" =>
          /\ Marks(segments) = Marks(results)
          /\ \A k \in 1..Len(results) :
               (IsPlaceholder(results[k]) /\ ~MergesWithNeighbour(k)) =>
                 \E m \in 1..Len(segments) : segments[m] = results[k])

\* A run with a placeholder segment of its own, a placeholder merged into a
\* neighbour, and a short turn without text that was dropped.
C6_Witness ==
  /\ pc = "twd_ret"
  /\ \E m \in 1..Len(segments) : IsPlaceholder(segments[m])
  /\ \E m \in 1..Len(segments) :
       ~IsPlaceholder(segments[m]) /\ Occurrences(segments[m].text, "[...]") = 1
  /\ Len(results) < Len(diar_segments)
  /\ Unlabelled(results) = <<>>

\* The tail the claim speaks of.
TailGap ==
  total_samples * TICKS
    - (IF diar_segments = <<>> THEN 0 ELSE Last(diar_segments).end)
TailBegins == (IF diar_segments = <<>> THEN 0 ELSE Last(diar_segments).end)

TailFrom == TailBegins \div TICKS
TailStart(k) == k * (chunk_duration - chunk_overlap) * SAMPLE_RATE
TailEnd(k) == Min(TailStart(k) + chunk_duration * SAMPLE_RATE, total_samples - TailFrom)
TailShort(k) == 10 * (TailEnd(k) - TailStart(k)) < 3 * SAMPLE_RATE
TailCount ==
  CHOOSE k \in 0..(total_samples \div SAMPLE_RATE + 1) :
    TailShort(k) /\ \A j \in 0..(k - 1) : ~TailShort(j)

\* The segment of the k-th tail chunk, transcribed by the n-th ASR call.
TailSegment(k, n) ==
  [start |-> Round2(TailBegins + TailStart(k - 1) * TICKS),
   end |-> Round2(TailBegins + TailEnd(k - 1) * TICKS),
   speaker |-> "", text |-> <<ToString(n)>>]

ProgressValues ==
  LET lines == SelectSeq(stderr, LAMBDA e : e.kind = "progress")
  IN  [k \in 1..Len(lines) |-> lines[k].p]

\* C8: within one run of main the progress values written to the progress
\* stream are non-decreasing and every value lies in [0, 1], on every path,
\* the fallback after a failed diarization and the events of the heartbeat
\* thread included.
C8_StatedMonotone ==
  /\ \A k \in 1..Len(ProgressValues) : ProgressValues[k] \in 0..1000
  /\ \A k \in 2..Len(ProgressValues) : ProgressValues[k - 1] <= ProgressValues[k]

\* How many elements of a sequence satisfy a test.
Count(seq, Test(_)) == Len(SelectSeq(seq, Test))

\* The word of the k-th ASR call occurs in a text.
HasWord(text, k) == \E n \in 1..Len(text) : text[n] = ToString(k)

\* The slices the plain pipeline hands to the ASR model on this buffer: the
\* whole buffer if it is no longer than a chunk, else the ranges of the
\* recurrence.
ExpectedPlainSpans ==
  IF SingleChunk(total_samples, ChunkSamples)
  THEN (IF total_samples < MinChunkSamples THEN <<>> ELSE <<Slice(0, total_samples)>>)
  ELSE [k \in 1..FirstShort |-> Slice(RangeStart(k - 1), RangeEnd(k - 1))]

\* The lines the main thread wrote to stderr, in order.
MainLines == SelectSeq(stderr, LAMBDA e : e.by = "main")

\* The run is over and no fatal fault was injected.
Completed == pc = "exited" /\ fault \cap FatalFaults = {}

\* The main thread is on its way to exit code 1.
Aborting == pc \in {"except", "finally_err"} \/ exit_code = 1

\* C9: a failure of the ASR model on a unit never aborts the run: each
\* failed call leaves one warning and no text, the run aborts only on a
\* fatal fault, and a run without one has processed every unit (every chunk
\* of the plain pipeline; every turn and every tail chunk of the diarized
\* one), has written its output and exits with code 0.
C9_AsrFailureRecovered ==
  /\ Count(warnings, LAMBDA w : w = "chunk")
       = Count(asr_calls, LAMBDA c : c.result = "fail")
  /\ Count(stderr, LAMBDA e : e = WarningEvent("chunk"))
       = Count(asr_calls, LAMBDA c : c.result = "fail")
  /\ \A k \in 1..Len(asr_calls) :
       asr_calls[k].result # "text" =>
         /\ ~HasWord(full_text, k)
         /\ \A n \in 1..Len(segments) : ~HasWord(segments[n].text, k)
         /\ \A n \in 1..Len(results) : ~HasWord(results[n].text, k)
  /\ Aborting => fault \cap FatalFaults # {}
  /\ Completed =>
       /\ exit_code = 0
       /\ output = Rendered(diarize, num_speakers, full_text, segments)
       /\ Last(MainLines) = ProgressEvent(1000, "complete", "main")
       /\ IF diarize
          THEN /\ i = Len(diar_segments) /\ cur.j = Len(results)
               /\ \A k \in 1..Len(diar_segments) :
                    \E c \in 1..Len(asr_calls) :
                      asr_calls[c].start = SamplesOf(diar_segments[k].start)
               /\ TailGap > 10 * SEC =>
                    \A k \in 1..TailCount :
                      CallSpans[Len(asr_calls) - TailCount + k] =
                        Slice(TailFrom + TailStart(k - 1), TailFrom + TailEnd(k - 1))
          ELSE CallSpans = ExpectedPlainSpans

\* A diarized run that exits with code 0 after two failed ASR calls, the
\* first of them followed by a call that returned text.
C9_Witness ==
  /\ pc = "exited" /\ exit_code = 0 /\ output.written /\ output.diarization
  /\ Count(asr_calls, LAMBDA c : c.result = "fail") >= 2
  /\ \E a, b \in 1..Len(asr_calls) :
       a < b /\ asr_calls[a].result = "fail" /\ asr_calls[b].result = "text"

\* C10: if the diarized pipeline fails, main logs a warning and runs the
\* plain pipeline over the whole buffer; the failure alone never aborts the
\* run, and without a fatal fault the run writes a non-diarized output with
\* speaker count 0 and exits with code 0.
C10_Fallback ==
  "diarize" \in fault =>
    /\ ~diarize
    /\ Count(warnings, LAMBDA w : w = "diarization") = 1
    /\ Count(stderr, LAMBDA e : e = WarningEvent("diarization")) = 1
    /\ pc \in {"ta_call", "ta_single", "ta_loop", "ta_ret", "save", "written",
               "except", "finally_ok", "finally_err", "exited"}
    /\ diar_segments = <<>> /\ results = <<>>
    /\ fault = {"diarize"} => ~Aborting
    /\ (pc = "exited" /\ fault = {"diarize"}) =>
         /\ exit_code = 0
         /\ output = Rendered(FALSE, 0, full_text, segments)
         /\ CallSpans = ExpectedPlainSpans
         /\ \A n \in 1..Len(segments) : "speaker" \notin DOMAIN segments[n]

\* A run with --diarize whose diarization failed and which exits with code 0
\* after the plain pipeline transcribed two chunks.
C10_Witness ==
  /\ pc = "exited" /\ exit_code = 0
  /\ fault = {"diarize"}
  /\ output.written /\ ~output.diarization /\ output.speakers = 0
  /\ Len(asr_calls) = 2 /\ Len(segments) = 2

(***************************************************************************)
(* Exit codes, temporary files and the heartbeat (C11 - C15).              *)
(***************************************************************************)
\* The number of {"error": ...} lines written so far.
ErrorCount == Count(stderr, LAMBDA e : e.kind = "error")

\* The run wrote the "complete" progress line.
ReportedComplete ==
  \E k \in 1..Len(stderr) : stderr[k] = ProgressEvent(1000, "complete", "main")

\* C11 as stated: exit code 0 exactly on a completed run, 1 on any fatal
\* error, and every fatal error after input validation is reported as one
\* error event.
C11_StatedOneError ==
  pc = "exited" =>
    /\ exit_code = 0 <=> (fault \cap FatalFaults = {} /\ output.written)
    /\ exit_code = 1 <=> fault \cap FatalFaults # {}
    /\ exit_code = 1 => ErrorCount = 1

\* C11 amended: a run exits with code 0 exactly when it wrote its output and
\* the "complete" line without a fatal fault, and with code 1 on any fatal
\* fault; a fatal fault is reported by the top-level handler as one error
\* event, and a failure of gigaam.load_model is reported a second time,
\* inside load_asr_model, so that such a run writes two error events.  A
\* run that exits with code 0 writes none.
C11_ExitCodes ==
  /\ ErrorCount <= 2
  /\ ErrorCount = 2 => "load_model" \in fault
  /\ pc = "exited" =>
       /\ exit_code \in {0, 1}
       /\ exit_code = 0 <=> (fault \cap FatalFaults = {} /\ output.written)
       /\ exit_code = 0 <=> ReportedComplete
       /\ exit_code = 1 <=> fault \cap FatalFaults # {}
       /\ exit_code = 0 => ErrorCount = 0
       /\ exit_code = 1 => ErrorCount >= 1
       /\ (exit_code = 1 /\ "load_model" \notin fault) => ErrorCount = 1

\* A run whose model load failed and which wrote two error events before it
\* exited with code 1.
C11_Witness ==
  /\ pc = "exited" /\ exit_code = 1
  /\ fault = {"load_model"}
  /\ ErrorCount = 2

\* C12: every temporary WAV file created during a run has been removed when
\* the run ends, on every exit path.  (The file of transcribe_chunk is
\* created and removed within one call; the decoded file of convert_to_wav
\* is the one that outlives a step.)
C12_StatedCleanup ==
  pc = "exited" => temp_file \in {"none", "removed"}

\* The length in samples of the k-th slice handed to the ASR model.
CallLen(k) == asr_calls[k].end - asr_calls[k].start

\* C13: every audio slice submitted to the ASR model, in either pipeline and
\* on every path, is at most chunk_duration seconds long.
C13_StatedBound ==
  \A k \in 1..Len(asr_calls) : CallLen(k) <= chunk_duration * SAMPLE_RATE

\* A line of the heartbeat thread follows the given line in stderr.
BeatAfter(line) ==
  \E a, b \in 1..Len(stderr) : a < b /\ stderr[a] = line /\ stderr[b].by = "hb"

\* C14: the heartbeat terminates the instant the load call returns: under
\* every interleaving no heartbeat progress event is written after main has
\* set the event and written the "model ready" progress event (0.14).
C14_StatedNoLateBeat ==
  ~BeatAfter(ProgressEvent(140, "loading_model", "main"))

\* C15: the heartbeat is stopped when the model load raises, too: no
\* heartbeat progress event is written after the error event of the failed
\* run.
C15_StatedStopped ==
  "load_model" \in fault => ~BeatAfter(ErrorEvent)

(***************************************************************************)
(* The warnings summary (C16, C17).                                        *)
(***************************************************************************)
\* The summary lines written so far.
Summaries == SelectSeq(stderr, LAMBDA e : e.kind = "summary")

\* The number of {"warning": ...} lines written so far.
WarningCount == Count(stderr, LAMBDA e : e.kind = "warning")

\* C16: the warnings summary lists at most 20 warnings, the first 20 in
\* emission order, while warnings_count is the number of warnings emitted
\* in the run, which may exceed 20; the summary is written at most once and
\* only if at least one warning was emitted.
C16_Summary ==
  /\ Len(Summaries) <= 1
  /\ Len(warnings) = WarningCount
  /\ Len(Summaries) = 1 =>
       /\ WarningCount >= 1
       /\ Summaries[1].warnings_count = WarningCount
       /\ Len(Summaries[1].warnings) <= 20
       /\ Len(Summaries[1].warnings) = Min(WarningCount, 20)
       /\ \A k \in 1..Len(Summaries[1].warnings) :
            Summaries[1].warnings[k] = warnings[k]

\* A run that wrote more than 20 warnings, the warning of the failed
\* diarization first, and a summary that lists 20 of them.
C16_Witness ==
  /\ pc = "exited"
  /\ Len(Summaries) = 1
  /\ Summaries[1].warnings_count > 20
  /\ Len(Summaries[1].warnings) = 20
  /\ Summaries[1].warnings[1] = "diarization"

\* C17: every run in which a warning event was written is followed at run
\* end by the warnings summary, whether the run ends successfully or with a
\* fatal error.
C17_StatedSummary ==
  (pc = "exited" /\ WarningCount >= 1) => Len(Summaries) = 1

(***************************************************************************)
(* The SRT timestamps (C18).  A timestamp is a sequence of characters.     *)
(***************************************************************************)
\* The value of a digit character, -1 for any other character.
DigitOf(c) == IF \E d \in 0..9 : ToString(d) = c
              THEN CHOOSE d \in 0..9 : ToString(d) = c ELSE -1

\* The number written by the characters of ts at positions a..b.
RECURSIVE NumberAt(_, _, _)
NumberAt(ts, a, b) ==
  IF b < a THEN 0 ELSE 10 * NumberAt(ts, a, b - 1) + DigitOf(ts[b])

\* An SRT timestamp is two digits, ":", two digits, ":", two digits, ",",
\* three digits.
WellFormedSrt(ts) ==
  /\ Len(ts) = 12
  /\ ts[3] = ":" /\ ts[6] = ":" /\ ts[9] = ","
  /\ \A k \in {1, 2, 4, 5, 7, 8, 10, 11, 12} : DigitOf(ts[k]) >= 0

\* The time in ticks an SRT timestamp denotes, -1 if it is not one.
ParseTsSrt(ts) ==
  IF WellFormedSrt(ts)
  THEN ((NumberAt(ts, 1, 2) * 3600 + NumberAt(ts, 4, 5) * 60 + NumberAt(ts, 7, 8)) * 1000
          + NumberAt(ts, 10, 12)) * MS
  ELSE -1

\* A time and the time read back from it agree to the millisecond.
SameMillisecond(t, u) == u >= 0 /\ 2 * (t - u) <= MS /\ 2 * (u - t) <= MS

\* C18: rendering a result through the SRT formatter and parsing the
\* timestamps back reproduces every segment's start and end to millisecond
\* precision, the unrounded end of the single-chunk path included; the
\* rendered millisecond field is always three digits.
C18_StatedRoundTrip ==
  \A n \in 1..Len(segments) :
    /\ WellFormedSrt(FormatTsSrt(segments[n].start))
    /\ WellFormedSrt(FormatTsSrt(segments[n].end))
    /\ SameMillisecond(segments[n].start, ParseTsSrt(FormatTsSrt(segments[n].start)))
    /\ SameMillisecond(segments[n].end, ParseTsSrt(FormatTsSrt(segments[n].end)))

(***************************************************************************)
(* The phases of the diarized pipeline and the ASR calls (C19, C20).       *)
(***************************************************************************)
\* The phase of the diarized pipeline: 0 diarizing, 1 per-turn
\* transcription, 2 tail fallback, 3 merging, 4 done (or left by the
\* exception of the diarization).
Phase ==
  CASE pc = "twd_call" -> 0
    [] pc \in {"twd_loop", "twd_parts", "twd_retry", "twd_emit"} -> 1
    [] pc = "twd_tail" -> 2
    [] pc = "twd_merge" -> 3
    [] OTHER -> 4

\* One step of the diarized pipeline keeps the order of the phases.
PhaseStep ==
  /\ Phase' >= Phase
  /\ Phase = 0 => (asr_calls' = asr_calls /\ results' = results)
  /\ i' # i => (Phase = 1 /\ Phase' = 1 /\ i' = i + 1)
  /\ (asr_calls' # asr_calls /\ Phase = 1) =>
       /\ i < Len(diar_segments)
       /\ Last(asr_calls').start >= expanded_start
       /\ Last(asr_calls').end <= expanded_end
  /\ Labelled(results') # Labelled(results) =>
       /\ Phase = 1
       /\ Labelled(results') = Append(Labelled(results), TurnResult(Seg, Last(results').text))
  /\ (asr_calls' # asr_calls /\ Phase = 2) =>
       /\ i = Len(diar_segments)
       /\ Last(asr_calls').start >= SamplesOf(last_diar_end)
  /\ Phase >= 3 => (asr_calls' = asr_calls /\ results' = results)
  /\ Phase = 4 => UNCHANGED <<merged, segments, full_text>>

\* C19: a diarized run passes through diarizing, per-turn transcription
\* over the turns in order, the tail-fallback check, merging and done, in
\* that order and never backwards: no turn is transcribed before the
\* diarization returned or after the tail-fallback check began, and no
\* segment is appended after merging started.
C19_Phases ==
  /\ [][PhaseStep]_vars
  /\ [](Phase = 0 => (asr_calls = <<>> /\ results = <<>>))
  /\ [](Phase >= 2 => i = Len(diar_segments))

\* A run that transcribed two turns and a tail and is done.
C19_Witness ==
  /\ pc = "twd_ret"
  /\ Len(diar_segments) >= 2
  /\ Len(Labelled(results)) >= 2
  /\ Len(Unlabelled(results)) >= 1
  /\ Len(merged) >= 2

\* A step of the heartbeat thread.
HbMoves == hb_pc' # hb_pc /\ pc' = pc

\* The heartbeat thread has started and has not returned.
HbAlive == hb_pc \notin {"idle", "done"}

\* A step in which the ASR model is invoked.
AsrInvoked == asr_calls' # asr_calls

\* C20: processing is strictly sequential: a step invokes the ASR model at
\* most once, the heartbeat thread never invokes it, and the heartbeat
\* thread is not running when the ASR model is invoked after a successful
\* model load.
C20_StatedSequential ==
  [][ /\ Len(asr_calls') <= Len(asr_calls) + 1
      /\ HbMoves => ~AsrInvoked
      /\ AsrInvoked => ~HbAlive ]_vars

(***************************************************************************)
(* Input validation (C21).                                                 *)
(***************************************************************************)
\* C21: a missing input file or an input with an unsupported extension is
\* fatal: main writes one error event and exits with code 1 before any
\* conversion, model load or transcription, with no progress event and no
\* temporary or output file.
C21_InputError ==
  "input" \in fault =>
    /\ pc = "exited" /\ exit_code = 1
    /\ stderr = <<ErrorEvent>>
    /\ temp_file = "none" /\ ~output.written
    /\ ~model_loaded /\ hb_pc = "idle"
    /\ asr_calls = <<>> /\ warnings = <<>>

\* A run that was given a bad input and has exited.
C21_Witness ==
  /\ "input" \in fault
  /\ pc = "exited" /\ exit_code = 1
  /\ ErrorCount = 1

(***************************************************************************)
(* The segments of the diarized pipeline (C22 - C24).                      *)
(***************************************************************************)
\* Every segment of a sequence ends after it starts.
AllPositive(segs) == \A n \in 1..Len(segs) : segs[n].end > segs[n].start

\* The segments of a sequence are in non-decreasing order of start.
StartOrdered(segs) == \A n \in 2..Len(segs) : segs[n - 1].start <= segs[n].start

\* The turns of the input come in non-decreasing start order, start < end.
TurnsInOrder ==
  /\ \A k \in 1..Len(raw_turns) : raw_turns[k].start < raw_turns[k].end
  /\ \A k \in 2..Len(raw_turns) : raw_turns[k - 1].start <= raw_turns[k].start

\* C22: for turns delivered in non-decreasing start order with start < end
\* (touching, apart or overlapping) every segment of the diarized pipeline
\* has end > start and the merged sequence is ordered by non-decreasing
\* start.
C22_SegmentOrder ==
  TurnsInOrder =>
    /\ AllPositive(results) /\ StartOrdered(results)
    /\ AllPositive(merged) /\ StartOrdered(merged)
    /\ pc = "twd_ret" => (segments = merged /\ AllPositive(segments) /\ StartOrdered(segments))

\* A finished run on turns two of which overlap, with three or more
\* segments, the last from the tail.
C22_Witness ==
  /\ pc = "twd_ret"
  /\ \E k \in 2..Len(raw_turns) : raw_turns[k].start < raw_turns[k - 1].end
  /\ Len(segments) >= 3
  /\ Last(segments).speaker = ""

\* The duration of a segment as the output gives it.
SegDuration(x) == x.end - x.start

\* C23: every non-placeholder segment in the output of a diarized run lasts
\* min_segment or longer, the speaker-less segments of the tail fallback
\* included.
C23_StatedMinDuration ==
  pc = "twd_ret" =>
    \A n \in 1..Len(segments) :
      ~IsPlaceholder(segments[n]) => SegDuration(segments[n]) >= min_segment

\* The texts of a sequence, in order, with one blank between neighbours.
RECURSIVE SpaceJoined(_)
SpaceJoined(parts) ==
  IF parts = <<>> THEN <<>>
  ELSE LET front == SubSeq(parts, 1, Len(parts) - 1)
       IN  IF front = <<>> THEN Last(parts)
           ELSE SpaceJoined(front) \o <<" ">> \o Last(parts)

\* C24: in both pipelines the returned full_text is the texts of the
\* returned segments, in order, joined by single spaces, the empty text
\* when there is no segment; placeholder texts are part of it.
C24_FullText ==
  pc \in {"ta_ret", "twd_ret"} =>
    /\ full_text = SpaceJoined(Texts(segments))
    /\ segments = <<>> => full_text = <<>>

\* A diarized run that returned two or more segments, one a placeholder.
C24_Witness ==
  /\ pc = "twd_ret"
  /\ Len(segments) >= 2
  /\ \E n \in 1..Len(segments) : IsPlaceholder(segments[n])
  /\ \E n \in 1..Len(segments) : ~IsPlaceholder(segments[n])

(***************************************************************************)
(* The progress estimate (C25).                                            *)
(***************************************************************************)
\* The line carries eta_seconds.
CarriesEta(line) == "eta_seconds" \in DOMAIN line

\* The loop of units the main thread is in: the chunk loop of the plain
\* pipeline or the per-turn loop of the diarized one.
InChunkLoop == pc = "ta_loop"
UnitTimes == IF InChunkLoop THEN chunk_times ELSE segment_times
UnitTotal == IF InChunkLoop THEN Len(chunks) ELSE Len(diar_segments)

\* A step that ends a unit: its time is recorded and its line written.
UnitDone == i' = i + 1

\* The lines written so far that carry eta_seconds.
EtaLines == SelectSeq(stderr, CarriesEta)

\* Which lines carry the estimate: the line of a unit, from the second unit
\* of a loop on, and no other line.
EtaPresence ==
  /\ [][UnitDone =>
          /\ UnitTimes' = Append(UnitTimes, UnitTimes'[i'])
          /\ Len(UnitTimes') = i'
          /\ CarriesEta(Last(stderr')) <=> i' >= 2]_vars
  /\ [](Len(EtaLines) =
          Max(Len(chunk_times) - 1, 0) + Max(Len(segment_times) - 1, 0))

\* C25 as stated: the line of a unit carries eta_seconds exactly from the
\* second unit on, and the value (tenths of a second here, the unit times
\* in ms) is the mean of the recorded unit times multiplied by the number of
\* remaining units.
C25_StatedEta ==
  /\ EtaPresence
  /\ [][(UnitDone /\ i' >= 2) =>
          Last(stderr').eta_seconds * 100 * i'
            = SumSeq(UnitTimes') * (UnitTotal - i')]_vars

\* C25 amended: the line of a unit carries eta_seconds exactly from the
\* second unit of its loop on (never on the first unit, never on the
\* single-chunk path), and the value is the mean of the recorded unit times
\* multiplied by the number of remaining units, rounded to one decimal:
\* within 0.05 s of the product.
C25_Eta ==
  /\ EtaPresence
  /\ [][(UnitDone /\ i' >= 2) =>
          LET shown == Last(stderr').eta_seconds * 100 * i'
              exact == SumSeq(UnitTimes') * (UnitTotal - i')
          IN  /\ 2 * (shown - exact) <= 100 * i'
              /\ 2 * (exact - shown) <= 100 * i']_vars

\* A run whose third unit reported an estimate that the rounding changed.
C25_Witness ==
  /\ Len(EtaLines) >= 2
  /\ pc = "ta_loop" /\ i = 3 /\ Len(chunks) >= 4
  /\ Last(stderr).eta_seconds * 100 * i # SumSeq(chunk_times) * (Len(chunks) - i)

(***************************************************************************)
(* The subtitle formats (C26).                                             *)
(***************************************************************************)
\* The speaker of the k-th segment written, "" when it has none.
WrittenSpeaker(k) ==
  IF "speaker" \in DOMAIN output.segments[k] THEN output.segments[k].speaker ELSE ""

\* The k-th segment written has its speaker shown: the run is diarized and
\* the speaker is non-empty.
SpeakerKnown(k) == output.diarization /\ WrittenSpeaker(k) # ""

\* C26: the SRT output has one cue of four lines per segment, numbered 1..n
\* in segment order, whose text line is "[speaker] text" if the run is
\* diarized and the segment's speaker is non-empty and the unchanged text
\* otherwise; the VTT output has one cue of three lines per segment after its
\* header, whose text line is "<v speaker>text" under the same condition and
\* the unchanged text otherwise.
C26_Cues ==
  output.written =>
    LET n == Len(output.segments) IN
    /\ Len(output.srt) = 4 * n
    /\ Len(output.vtt) = 2 + 3 * n
    /\ output.vtt[1] = <<"WEBVTT">>
    /\ \A k \in 1..n :
         LET text == output.segments[k].text
             srt_text == output.srt[4 * k - 1]
             vtt_text == output.vtt[3 * k + 1]
         IN  /\ output.srt[4 * k - 3] = <<ToString(k)>>
             /\ IF SpeakerKnown(k)
                THEN /\ srt_text = <<"[", WrittenSpeaker(k), "]", " ">> \o text
                     /\ vtt_text = <<"<v ", WrittenSpeaker(k), ">">> \o text
                ELSE /\ srt_text = text
                     /\ vtt_text = text

\* A diarized run that wrote a segment with a speaker, shown in its cue, and
\* a segment without one (a tail segment), whose cue is the unchanged text.
C26_Witness ==
  /\ pc = "exited" /\ output.written /\ output.diarization
  /\ \E k, l \in 1..Len(output.segments) :
       /\ WrittenSpeaker(k) # "" /\ WrittenSpeaker(l) = ""
       /\ output.srt[4 * l - 1] = output.segments[l].text
       /\ Head(output.srt[4 * k - 1]) = "["
       /\ Head(output.vtt[3 * k + 1]) = "<v "

(***************************************************************************)
(* The model download (C27).                                               *)
(***************************************************************************)
\* The curl process of attempt k failed: it returned a non-zero code or ran
\* over the 1-hour ceiling.
AttemptFailed(k) == curl_runs[k].returncode # 0 \/ curl_runs[k].seconds > 3600

\* C27 as stated: _curl_download makes at most 10 attempts; it returns
\* success at the first attempt that succeeds; it has waited min(5 * k, 30)
\* seconds after each failed attempt k that is followed by another attempt
\* and has not waited after the last one; it returns failure only after 10
\* failed attempts; and an attempt that runs over the 1-hour ceiling is a
\* failed attempt like any other: the function goes on to the next attempt
\* or returns failure, it does not end in any other way.
C27_StatedDownload ==
  /\ Len(curl_runs) <= 10
  /\ Len(sleeps) <= 9
  /\ \A k \in 1..Len(sleeps) : sleeps[k] = (IF 5 * k <= 30 THEN 5 * k ELSE 30)
  /\ dl_pc = "run" => Len(curl_runs) = attempt - 1 /\ Len(sleeps) = attempt - 1
  /\ dl_pc = "check" => Len(curl_runs) = attempt /\ Len(sleeps) = attempt - 1
  /\ dl_pc \in {"run", "check"} => \A k \in 1..(attempt - 1) : AttemptFailed(k)
  /\ dl_pc = "returned_true" =>
       /\ ~AttemptFailed(Len(curl_runs))
       /\ \A k \in 1..(Len(curl_runs) - 1) : AttemptFailed(k)
       /\ Len(sleeps) = Len(curl_runs) - 1
  /\ dl_pc = "returned_false" =>
       /\ Len(curl_runs) = 10 /\ Len(sleeps) = 9
       /\ \A k \in 1..10 : AttemptFailed(k)
  /\ dl_pc \in {"run", "check", "returned_true", "returned_false"}

\* The part of C27 that does not concern the ceiling: the same statement for
\* the runs in which no curl process ran over one hour.
C27_WithoutCeiling ==
  (\A k \in 1..Len(curl_runs) : curl_runs[k].seconds <= 3600) => C27_StatedDownload

\* The download returned failure after ten failed attempts and nine waits,
\* the last of 30 seconds.
C27_Witness ==
  /\ dl_pc = "returned_false"
  /\ Len(curl_runs) = 10 /\ sleeps[9] = 30 /\ sleeps[1] = 5

(***************************************************************************)
(* The expansion retry (C28).                                              *)
(***************************************************************************)
\* The turn in progress lasts 0.5 s or more.
HalfSecondOrMore == 2 * (end_sample - start_sample) >= SAMPLE_RATE

\* The span of the retry as C28 states it.
RetryLo == Max(0, start_sample - expansion_pad * SAMPLE_RATE)
RetryHi == Min(total_samples, end_sample + expansion_pad * SAMPLE_RATE)

\* C28: when the first transcription of a turn is done, the expansion retry
\* runs if and only if its text is empty and the turn lasts 0.5 s or more;
\* the retry is one ASR call on [max(0, start - pad), min(total, end + pad)],
\* a span within the buffer that contains the turn's span; a turn whose
\* first transcription gave text makes no further call; and after the retry
\* the turn ends without another call.
C28_Retry ==
  /\ [][pc = "twd_retry" =>
          /\ (pc' = "twd_emit") <=> (cur.text = <<>> /\ HalfSecondOrMore)
          /\ pc' = "twd_emit" =>
               /\ Len(asr_calls') = Len(asr_calls) + 1
               /\ SubSeq(asr_calls', 1, Len(asr_calls)) = asr_calls
               /\ asr_calls'[Len(asr_calls')].start = RetryLo
               /\ asr_calls'[Len(asr_calls')].end = RetryHi
               /\ 0 <= RetryLo /\ RetryLo <= start_sample
               /\ end_sample <= RetryHi /\ RetryHi <= total_samples
               /\ i' = i
          /\ pc' # "twd_emit" => asr_calls' = asr_calls /\ i' = i + 1]_vars
  /\ [][pc = "twd_emit" => asr_calls' = asr_calls /\ i' = i + 1]_vars

\* The retry has run on a span clamped at the start of the buffer, and the
\* retry has run on a span clamped at its end.
C28_Witness ==
  /\ pc = "twd_emit"
  /\ LET call == asr_calls[Len(asr_calls)] IN
     \/ call.start = 0 /\ start_sample < expansion_pad * SAMPLE_RATE
                       /\ call.end = end_sample + expansion_pad * SAMPLE_RATE
     \/ call.end = total_samples /\ call.start = start_sample - expansion_pad * SAMPLE_RATE
                       /\ end_sample + expansion_pad * SAMPLE_RATE > total_samples

(***************************************************************************)
(* Slices shorter than 0.1 s (C29).                                        *)
(***************************************************************************)
\* The buffer, which the single-chunk path hands to transcribe_chunk whole,
\* is shorter than 0.1 s.
ShortBuffer == 10 * total_samples < SAMPLE_RATE

\* The warning events in a stream.
WarningLines(stream) == SelectSeq(stream, LAMBDA e : e.kind = "warning")

\* C29: the call of transcribe_chunk on a slice shorter than 0.1 s returns
\* the empty text, and it makes no ASR call, creates no temporary file (no
\* pass beyond the guard is recorded) and reports no warning.
C29_ShortSlice ==
  [][(pc = "ta_single" /\ ShortBuffer) =>
       /\ full_text' = <<>> /\ segments' = <<>>
       /\ asr_calls' = asr_calls
       /\ warnings' = warnings
       /\ WarningLines(stderr') = WarningLines(stderr)]_vars

\* transcribe_audio has returned from the single-chunk path on a buffer of
\* 1599 samples, one sample short of 0.1 s, without a call.
C29_Witness ==
  /\ pc = "ta_ret" /\ total_samples = 1599
  /\ asr_calls = <<>> /\ warnings = <<>> /\ full_text = <<>>

(***************************************************************************)
(* Direct and chunked turns (C30).                                         *)
(***************************************************************************)
\* Step and length of the chunk scheduler, and the length of the turn in
\* progress, in samples.
SchedStep == (chunk_duration - chunk_overlap) * SAMPLE_RATE
SchedLen == chunk_duration * SAMPLE_RATE
TurnLen == end_sample - start_sample

\* The k-th chunk (k = 0, 1, ...) of the turn in progress.
PartStart(k) == start_sample + k * SchedStep
PartEnd(k) == IF PartStart(k) + SchedLen <= end_sample
              THEN PartStart(k) + SchedLen ELSE end_sample

\* The number of chunks before the first one shorter than 0.3 s or the end
\* of the turn.
RECURSIVE PartsFrom(_)
PartsFrom(k) ==
  IF k * SchedStep < TurnLen /\ 10 * (PartEnd(k) - PartStart(k)) >= 3 * SAMPLE_RATE
  THEN 1 + PartsFrom(k + 1) ELSE 0
PartCount == PartsFrom(0)

\* The text of the call at position c of asr_calls.
WordOf(calls, c) == IF calls[c].result = "text" THEN <<ToString(c)>> ELSE <<>>

\* The non-empty texts of the last n calls, in call order.
LastWords(calls, n) ==
  LET from == Len(calls) - n
      words == [k \in 1..n |-> WordOf(calls, from + k)]
  IN  SelectSeq(words, LAMBDA w : w # <<>>)

\* C30: a turn is transcribed with one ASR call on its span exactly when its
\* duration is at most chunk_duration - chunk_overlap; a longer turn is
\* transcribed chunk by chunk, one call for each chunk of the scheduler
\* (start k * (D - O), length D clipped to the turn, up to the first chunk
\* shorter than 0.3 s), and its text is the non-empty texts of these calls
\* in chunk order, joined by single spaces.
C30_TurnChunks ==
  /\ [][(pc = "twd_loop" /\ i < Len(diar_segments) /\ pc' # "twd_loop") =>
          IF TurnLen <= SchedStep
          THEN /\ pc' = "twd_retry"
               /\ asr_calls' = Append(asr_calls,
                    [start |-> start_sample, end |-> end_sample,
                     result |-> asr_calls'[Len(asr_calls')].result,
                     temp |-> "removed"])
               /\ cur'.text = WordOf(asr_calls', Len(asr_calls'))
          ELSE /\ pc' = "twd_parts"
               /\ asr_calls' = asr_calls
               /\ cur'.chunk_start = 0]_vars
  /\ [][(pc = "twd_parts" /\ pc' = "twd_parts") =>
          /\ Len(asr_calls') = Len(asr_calls) + 1
          /\ cur'.chunk_start = cur.chunk_start + SchedStep]_vars
  /\ [][(pc = "twd_parts" /\ pc' # "twd_parts") =>
          /\ pc' = "twd_retry"
          /\ asr_calls' = asr_calls
          /\ cur.chunk_start = PartCount * SchedStep
          /\ Len(asr_calls) >= PartCount
          /\ \A k \in 1..PartCount :
               LET call == asr_calls[Len(asr_calls) - PartCount + k]
               IN  call.start = PartStart(k - 1) /\ call.end = PartEnd(k - 1)
          /\ cur'.text = SpaceJoined(LastWords(asr_calls, PartCount))]_vars

\* A turn of more than 16 s was transcribed in two chunks that both gave
\* text, and its text is the two texts with a blank between them.
C30_Witness ==
  /\ pc = "twd_retry" /\ i < Len(diar_segments)
  /\ TurnLen > SchedStep /\ PartCount = 2
  /\ Len(cur.text) = 3 /\ cur.text[2] = " "

(***************************************************************************)
(* Merging (C31).                                                          *)
(***************************************************************************)
\* _merge_segments after the first k turns of the diarization.
MergedPrefix(k) == MergeSegments(SubSeq(raw_turns, 1, k), merge_gap)

\* The k-th turn was merged into the segment before it.
TurnMerged(k) == k > 1 /\ Len(MergedPrefix(k)) = Len(MergedPrefix(k - 1))

\* C31 as stated: a merge never shrinks a segment.  In _merge_segments, the
\* segment a turn is merged into keeps its start and ends no earlier than it
\* did before and no earlier than the turn; in the merge loop of
\* transcribe_with_diarization, the segment a result is merged into keeps
\* its start and ends no earlier than it did before and no earlier than the
\* result.
C31_StatedNoShrink ==
  /\ [](\A k \in 1..Len(raw_turns) :
          TurnMerged(k) =>
            LET before == MergedPrefix(k - 1)[Len(MergedPrefix(k - 1))]
                after == MergedPrefix(k)[Len(MergedPrefix(k))]
            IN  /\ after.start = before.start
                /\ after.end >= before.end
                /\ after.end >= raw_turns[k].end)
  /\ [][(pc = "twd_merge" /\ merged # <<>> /\ Len(merged') = Len(merged)
           /\ cur'.j = cur.j + 1) =>
          LET before == merged[Len(merged)]
              after == merged'[Len(merged')]
          IN  /\ after.start = before.start
              /\ after.end >= before.end
              /\ after.end >= results[cur.j + 1].end]_vars

(***************************************************************************)
(* The speaker count (C32).                                                *)
(***************************************************************************)
\* The non-empty speaker labels of the segments written.
KnownSpeakers ==
  { WrittenSpeaker(k) : k \in 1..Len(output.segments) } \ {""}

\* C32 as stated: the speaker count written by a diarized run is the number
\* of distinct non-empty speaker labels of the output segments; segments
\* without a speaker are not counted.
C32_StatedSpeakerCount ==
  (output.written /\ output.diarization) =>
     output.speakers = Cardinality(KnownSpeakers)

(***************************************************************************)
(* The merge step leaves nothing to merge (C33).                           *)
(***************************************************************************)
\* Two neighbours the merge step would have joined: the same non-empty
\* speaker and a gap below merge_gap.
Mergeable(prev, next) ==
  /\ prev.speaker = next.speaker /\ next.speaker # ""
  /\ next.start - prev.end < merge_gap

\* The merge step applied to a list of segments.
RECURSIVE MergeAgain(_, _)
MergeAgain(acc, rest) ==
  IF rest = <<>> THEN acc
  ELSE IF acc # <<>> /\ Mergeable(acc[Len(acc)], Head(rest))
  THEN MergeAgain([acc EXCEPT ![Len(acc)].end = Head(rest).end,
                              ![Len(acc)].text = @ \o <<" ">> \o Head(rest).text],
                  Tail(rest))
  ELSE MergeAgain(Append(acc, Head(rest)), Tail(rest))

\* C33: in the segments the diarized pipeline returns no two neighbours have
\* the same non-empty speaker and a gap below merge_gap, and the merge step
\* applied to them a second time returns them unchanged.
C33_MergeIdempotent ==
  pc = "twd_ret" =>
    /\ \A k \in 1..(Len(segments) - 1) : ~Mergeable(segments[k], segments[k + 1])
    /\ MergeAgain(<<>>, segments) = segments

\* The pipeline returned after the merge step joined two results and kept
\* apart two neighbours of the same speaker whose gap is merge_gap or more.
C33_Witness ==
  /\ pc = "twd_ret"
  /\ Len(results) > Len(segments) /\ Len(segments) >= 2
  /\ \E k \in 1..(Len(segments) - 1) :
       segments[k].speaker = segments[k + 1].speaker /\ segments[k].speaker # ""

(***************************************************************************)
(* Coverage of the buffer by the chunks (C34).                             *)
(***************************************************************************)
\* A sequence of ranges <<start, end>> covers [from, total) but for a
\* remainder shorter than 0.3 s: the first range starts at `from`, each
\* range starts no later than the one before it ends, and the last one ends
\* less than 0.3 s before `total`.
Covers(ranges, from, total) ==
  /\ ranges # <<>>
  /\ ranges[1][1] = from
  /\ \A k \in 1..(Len(ranges) - 1) :
       /\ ranges[k + 1][1] <= ranges[k][2]
       /\ ranges[k][2] <= ranges[k + 1][2]
  /\ \A k \in 1..Len(ranges) : ranges[k][1] < ranges[k][2]
  /\ 10 * (total - ranges[Len(ranges)][2]) < 3 * SAMPLE_RATE

\* The ranges of the last n ASR calls.
LastRanges(n) ==
  [k \in 1..n |-> << asr_calls[Len(asr_calls) - n + k].start,
                     asr_calls[Len(asr_calls) - n + k].end >>]

\* C34: the chunks of transcribe_audio cover the buffer, and the chunks of
\* the tail fallback cover the tail, but for a remainder shorter than 0.3 s,
\* and consecutive chunks leave no gap; every chunk is submitted to the ASR
\* model.
C34_Coverage ==
  /\ [](pc = "ta_loop" => Covers(chunks, 0, total_samples))
  /\ []((pc = "ta_loop" /\ i = Len(chunks)) =>
          /\ Len(asr_calls) = Len(chunks)
          /\ LastRanges(Len(chunks)) = chunks)
  /\ [][(pc = "twd_tail" /\ pc' = "twd_merge") =>
          LET n == cur.chunk_start \div ((chunk_duration - chunk_overlap) * SAMPLE_RATE)
          IN  /\ n <= Len(asr_calls)
              /\ Covers(LastRanges(n), tail_start_sample, total_samples)]_vars

\* A buffer of 4.3 s minus one sample chunked with D = 2 and O = 0 into two
\* chunks, with a remainder of 0.3 s minus one sample left over.
C34_Witness ==
  /\ pc = "ta_loop" /\ chunk_duration = 2 /\ chunk_overlap = 0
  /\ Len(chunks) = 2 /\ i = 2
  /\ total_samples - chunks[2][2] = (3 * SAMPLE_RATE) \div 10 - 1

(***************************************************************************)
(* Chunk duration and overlap as the command line accepts them (C35).      *)
(***************************************************************************)
\* A run without --diarize over a buffer longer than the chunk duration has
\* ended.
PlainRunEnded ==
  /\ pc = "exited"
  /\ ~diarize /\ "diarize" \notin fault
  /\ total_samples > chunk_duration * SAMPLE_RATE

\* C35 as stated: a plain run over a buffer longer than the chunk duration,
\* for every chunk duration and overlap the command line accepts, has either
\* submitted a chunk to the ASR model or ended with an error event and exit
\* code 1; it has not ended with exit code 0 and the 'complete' event
\* without a call.
C35_StatedNeverEmpty ==
  PlainRunEnded =>
    \/ asr_calls # <<>>
    \/ /\ exit_code = 1
       /\ ErrorCount >= 1
       /\ ~ReportedComplete

(***************************************************************************)
(* The 'complete' event (C36).                                             *)
(***************************************************************************)
\* The line at position k is the 'complete' event.
IsComplete(k) == stderr[k].kind = "progress" /\ stderr[k].step = "complete"

\* C36 as stated: the 'complete' event is written only after the output
\* file was written, no progress event follows it, and no run writes both
\* an error event and the 'complete' event.
C36_StatedComplete ==
  \A k \in 1..Len(stderr) :
    IsComplete(k) =>
      /\ output.written
      /\ \A l \in (k + 1)..Len(stderr) : stderr[l].kind # "progress"
      /\ ErrorCount = 0

\* The parts of C36 that concern the main thread: the 'complete' event is
\* written only after the output file was written, the main thread writes
\* no progress event after it, and no run writes both an error event and
\* the 'complete' event.
C36_MainThread ==
  \A k \in 1..Len(stderr) :
    IsComplete(k) =>
      /\ output.written
      /\ \A l \in (k + 1)..Len(stderr) :
           stderr[l].kind = "progress" => stderr[l].by # "main"
      /\ ErrorCount = 0

(***************************************************************************)
(* The watcher's debounce (C37, C38, C39).                                 *)
(***************************************************************************)
\* The step writes a new_file event.
Emits == Len(emitted') = Len(emitted) + 1
NewEvent == emitted'[Len(emitted')]

\* The step is a create or modify event observed for the media file p.
Observes(p) ==
  /\ deb_pc' = deb_pc /\ w_time' = w_time /\ w_exists' = w_exists
  /\ ready' = ready /\ emitted' = emitted
  /\ w_pending' # w_pending \/ last_event' # last_event
  /\ last_event'[p] = w_time
  /\ \A q \in DOMAIN last_event : q # p => last_event'[q] = last_event[q]

\* The time at which p was last scheduled, NoEvent when it is not pending.
PendingSince(pend, p) ==
  IF \E k \in 1..Len(pend) : pend[k][1] = p
  THEN (CHOOSE e \in { pend[k] : k \in 1..Len(pend) } : e[1] = p)[2]
  ELSE NoEvent

\* C37 as stated: a new_file event for a path is written only when at least
\* debounce_seconds have passed since the last create/modify event observed
\* for the path, and each such event for a path restarts its waiting period,
\* whatever the interleaving of the observer callbacks and the debounce
\* thread.
C37_StatedDebounce ==
  /\ [][Emits =>
          /\ NewEvent.path \in DOMAIN last_event
          /\ last_event[NewEvent.path] # NoEvent
          /\ NewEvent.at - last_event[NewEvent.path] >= debounce_seconds]_vars
  /\ [][\A p \in DOMAIN last_event :
          Observes(p) => PendingSince(w_pending', p) = w_time]_vars

\* What holds of C37: the debounce thread takes a path out of _pending only
\* when at least debounce_seconds lie between the time it read and the last
\* event scheduled for the path, and each event restarts the waiting period.
C37_Collected ==
  /\ [][(deb_pc = "lock" /\ deb_pc' = "report") =>
          \A k \in 1..Len(ready') :
            deb_now - PendingSince(w_pending, ready'[k]) >= debounce_seconds]_vars
  /\ [][\A p \in DOMAIN last_event :
          Observes(p) => PendingSince(w_pending', p) = w_time]_vars


\* The paths of the new_file events written so far.
EmittedPaths == { emitted[k].path : k \in 1..Len(emitted) }

\* The debounce thread handles the path at the head of the ready list.
Reports == deb_pc = "report" /\ ready # <<>> /\ ready' = Tail(ready)

\* C38: at most one new_file event is written per path, whatever create and
\* modify events arrive for it and however they interleave with the debounce
\* thread; a path that no longer exists when its waiting period has ended is
\* neither emitted nor marked as reported.
C38_OncePerPath ==
  /\ [](\A k, l \in 1..Len(emitted) :
          emitted[k].path = emitted[l].path => k = l)
  /\ [](w_reported = EmittedPaths)
  /\ [][(Reports /\ Head(ready) \notin w_exists) =>
          emitted' = emitted /\ w_reported' = w_reported]_vars
  /\ [][(Reports /\ Head(ready) \in w_reported) =>
          emitted' = emitted /\ w_reported' = w_reported]_vars

\* C38 witness: a.mp3 was emitted once, a later event scheduled it again and
\* that second waiting period ended without a second event; b.MP3 was
\* scheduled, was absent when its waiting period ended, and is neither emitted
\* nor marked as reported.
C38_Witness ==
  /\ Len(emitted) = 1 /\ emitted[1].path = MediaA
  /\ last_event[MediaA] >= emitted[1].at
  /\ last_event[MediaB] # NoEvent
  /\ MediaB \notin w_reported
  /\ w_pending = <<>> /\ ready = <<>> /\ deb_pc = "sleep"
  /\ deb_now - last_event[MediaA] >= debounce_seconds
  /\ deb_now - last_event[MediaB] >= debounce_seconds


\* The step is a create or modify event for the file p, as the handlers see
\* it.
EventFor(p) == Handle(p, FALSE)

\* C39 as stated: when a create or modify event was observed for a media
\* path with a watched extension outside the skipped directories that was not
\* yet reported, and from some point on the path keeps existing and receives
\* no further event, a new_file event is eventually written for it, the
\* debounce thread running for ever.
C39_StatedEventually ==
  \A p \in Transient :
    ( /\ IsAudioFile(p) /\ ~ShouldSkipPath(p)
      /\ <>(last_event[p] # NoEvent)
      /\ <>[](p \in w_exists)
      /\ <>[][~EventFor(p)]_vars )
    => <>(p \in EmittedPaths)

\* What holds of C39: a path that exists from its event on, until the
\* debounce thread has handled it, is eventually emitted.
C39_WhilePresent ==
  \A p \in Transient :
    ( /\ IsAudioFile(p) /\ ~ShouldSkipPath(p)
      /\ <>(last_event[p] # NoEvent)
      /\ [](p \in w_exists) )
    => <>(p \in EmittedPaths)

====
